---- MODULE Spec2Model ----
(***************************************************************************)
(* node-be-common-lib.                                                     *)
(*                                                                         *)
(* The OTP module: OtpGenerator, OtpHashService and OtpService (both       *)
(* variants of OtpService found in the sources: the one whose expiry       *)
(* defaults to null and the one whose expiry defaults to ten minutes), the *)
(* generator and the hash service also used on their own.  LoggerService.  *)
(* EmailSenderFactory and the two email senders.  S3Service.               *)
(* CognitoService.  Each is a machine of its own, with its own             *)
(* specification; the others stay at rest while one runs.                  *)
(*                                                                         *)
(* Strings the code converts, measures or hashes are sequences of code     *)
(* points, and buffers are sequences of bytes; strings it only compares or *)
(* interpolates are written as strings.  JavaScript values of a union type *)
(* are tagged records.                                                     *)
(***************************************************************************)
EXTENDS Integers, Sequences, FiniteSets

VARIABLES
  ctor,    \* the arguments the OtpService was constructed with
  svc,     \* the OtpService instance: its fields
  now,     \* the clock, in milliseconds
  issued,  \* what the last createOtp() returned, and when it was called
  call,    \* the validateOtp call the caller holds the result of
  gen,     \* a standalone OtpGenerator: its options field
  hs,      \* a standalone OtpHashService: its options field
  op,      \* the last call made on the generator or the hash service
  first,   \* the first createHash call made on the hash service
  env,     \* process.env: NODE_ENV and LOG_LEVEL
  lg,      \* a LoggerService instance: its fields
  logOp,   \* the last call of a logging method, and what it printed
  asked,   \* the logger's construction, then the last setLogLevel call
  senders, \* the email senders constructed so far, in order
  made,    \* the last EmailSenderFactory.createSender call and its outcome
  sent,    \* the last send call made on a sender and its outcome
  s3,      \* an S3Service instance: its fields
  s3Op,    \* the last call made on the S3Service and its outcome
  cog,     \* a CognitoService instance: its fields
  cogOp,   \* the last call made on the CognitoService and its outcome
  seen     \* an earlier validateOtp call, kept to compare later ones with

\* the variables of the OtpService machine
otpVars == <<ctor, svc, now, issued, call>>
\* the variables of the standalone generator and hash service
optionsVars == <<gen, hs, op, first>>
\* the variables of the logger
loggerVars == <<env, lg, logOp, asked>>
\* the variables of the email sender factory
emailVars == <<senders, made, sent>>
\* the variables of the S3 service
s3Vars == <<s3, s3Op>>
\* the variables of the Cognito service
cognitoVars == <<cog, cogOp>>
\* the variable added when validateOtp calls are repeated
replayVars == <<seen>>

vars ==
  <<otpVars, optionsVars, loggerVars, emailVars, s3Vars, cognitoVars,
    replayVars>>

\* what each machine leaves alone
exceptOtp ==
  <<optionsVars, loggerVars, emailVars, s3Vars, cognitoVars, replayVars>>
exceptOptions ==
  <<otpVars, loggerVars, emailVars, s3Vars, cognitoVars, replayVars>>
exceptLogger ==
  <<otpVars, optionsVars, emailVars, s3Vars, cognitoVars, replayVars>>
exceptEmail ==
  <<otpVars, optionsVars, loggerVars, s3Vars, cognitoVars, replayVars>>
exceptS3 ==
  <<otpVars, optionsVars, loggerVars, emailVars, cognitoVars, replayVars>>
exceptCognito ==
  <<otpVars, optionsVars, loggerVars, emailVars, s3Vars, replayVars>>
exceptReplay == <<optionsVars, loggerVars, emailVars, s3Vars, cognitoVars>>

(***************************************************************************)
(* Bounds of the model.                                                    *)
(***************************************************************************)
\* the clock runs from 0 to MaxNow milliseconds
MaxNow == 3
\* the short expiry duration (milliseconds) services are configured with
ExpiryMs == 2

(***************************************************************************)
(* JavaScript values.                                                      *)
(***************************************************************************)
Undefined == [t |-> "undefined"]
Null == [t |-> "null"]
Num(n) == [t |-> "number", v |-> n]
\* a Date holding the time value ms (milliseconds since the epoch)
DateOf(ms) == [t |-> "date", ms |-> ms]

\* ToBoolean of a value that is undefined, null, a number or an object
Truthy(x) ==
  CASE x.t = "undefined" -> FALSE
    [] x.t = "null" -> FALSE
    [] x.t = "number" -> x.v # 0
    [] OTHER -> TRUE

\* { ...a, ...b }: every own key of b overrides a's, whatever its value
Spread(a, b) ==
  [k \in (DOMAIN a) \cup (DOMAIN b) |-> IF k \in DOMAIN b THEN b[k] ELSE a[k]]

(***************************************************************************)
(* Strings used by the model, as code points.                              *)
(***************************************************************************)
EmptyString == << >>
\* "s1"
SaltS1 == <<115, 49>>
\* "123456"
Code123456 == <<49, 50, 51, 52, 53, 54>>

(***************************************************************************)
(* types.ts                                                                *)
(***************************************************************************)
DEFAULT_OTP_OPTIONS == [length |-> 6, numbersOnly |-> TRUE]

DEFAULT_HASH_OPTIONS == [algorithm |-> "sha256", salt |-> EmptyString]

HashAlgorithm == {"sha256", "sha512"}

(***************************************************************************)
(* node:crypto and Buffer, as far as OtpHashService uses them.             *)
(***************************************************************************)
\* output size in bytes of the digest of each algorithm
DigestBytes(algorithm) == IF algorithm = "sha256" THEN 32 ELSE 64

\* createHmac(algorithm, key).update(msg).digest(): a keyed function of
\* fixed output size, idealised as collision free: the digest holds the
\* length-prefixed key and message, zero padded to the digest size
HmacFrame(key, msg) == <<Len(key)>> \o key \o <<Len(msg)>> \o msg

Hmac(algorithm, key, msg) ==
  LET frame == HmacFrame(key, msg)
  IN  [i \in 1..DigestBytes(algorithm) |->
         IF i <= Len(frame) THEN frame[i] ELSE 0]

\* the base64 alphabet: A-Z, a-z, 0-9, +, /
Base64Char(i) ==
  IF i < 26 THEN 65 + i
  ELSE IF i < 52 THEN 97 + (i - 26)
  ELSE IF i < 62 THEN 48 + (i - 52)
  ELSE IF i = 62 THEN 43
  ELSE 47

\* '='
Base64Pad == <<61>>

\* digest('base64'): three bytes make four characters, the tail is padded
RECURSIVE Base64(_)
Base64(bytes) ==
  IF Len(bytes) = 0 THEN << >>
  ELSE IF Len(bytes) = 1 THEN
    << Base64Char(bytes[1] \div 4),
       Base64Char((bytes[1] % 4) * 16) >> \o Base64Pad \o Base64Pad
  ELSE IF Len(bytes) = 2 THEN
    << Base64Char(bytes[1] \div 4),
       Base64Char(((bytes[1] % 4) * 16) + (bytes[2] \div 16)),
       Base64Char((bytes[2] % 16) * 4) >> \o Base64Pad
  ELSE
    << Base64Char(bytes[1] \div 4),
       Base64Char(((bytes[1] % 4) * 16) + (bytes[2] \div 16)),
       Base64Char(((bytes[2] % 16) * 4) + (bytes[3] \div 64)),
       Base64Char(bytes[3] % 64) >> \o Base64(SubSeq(bytes, 4, Len(bytes)))

\* Buffer.from(string): the UTF-8 encoding of the string
RECURSIVE BufferFrom(_)
BufferFrom(str) ==
  IF Len(str) = 0 THEN << >>
  ELSE (IF str[1] < 128 THEN <<str[1]>>
        ELSE <<192 + (str[1] \div 64), 128 + (str[1] % 64)>>)
       \o BufferFrom(Tail(str))

\* the outcome of a call: a returned value or a thrown error
Return(v) == [kind |-> "return", value |-> v]
Throw(e) == [kind |-> "throw", error |-> e]

\* crypto.timingSafeEqual(a, b): throws when the byte lengths differ
TimingSafeEqual(a, b) ==
  IF Len(a) # Len(b) THEN Throw("ERR_CRYPTO_TIMING_SAFE_EQUAL_LENGTH")
  ELSE Return(a = b)

(***************************************************************************)
(* OtpHashService                                                          *)
(***************************************************************************)
\* constructor(options = DEFAULT_HASH_OPTIONS)
NewOtpHashService(options) == Spread(DEFAULT_HASH_OPTIONS, options)

\* createHash(otp) feeding an Hmac object kept since the first call
CreateHashKeptHmac(options, otp) ==
  Base64(Hmac(options.algorithm, options.salt,
              (IF first.t = "createHash" THEN first.otp ELSE EmptyString)
                \o otp))

\* createHash(otp)
CreateHash(options, otp) ==
  Base64(Hmac(options.algorithm, options.salt, otp))

\* verifyHash comparing the stored hash with itself
VerifyHashSelfCompare(options, otp, hash) ==
  TimingSafeEqual(BufferFrom(hash), BufferFrom(hash))

\* verifyHash(otp, hash)
VerifyHash(options, otp, hash) ==
  LET computedHash == CreateHash(options, otp)
  IN  TimingSafeEqual(BufferFrom(computedHash), BufferFrom(hash))

(***************************************************************************)
(* OtpGenerator                                                            *)
(***************************************************************************)
\* '0123456789'
NUMBERS == [i \in 1..10 |-> 47 + i]

\* 'ABCDEFGHIJKLMNOPQRSTUVWXYZ0123456789'
ALPHA_NUMERIC == [i \in 1..36 |-> IF i <= 26 THEN 64 + i ELSE 21 + i]

\* constructor(options = DEFAULT_OTP_OPTIONS)
NewOtpGenerator(options) == Spread(DEFAULT_OTP_OPTIONS, options)

\* generate() with a loop that runs once more: randomValues[length] is
\* undefined, the index NaN, and charAt(NaN) the first character
GenerateOneMore(options, randomValues) ==
  LET chars == IF options.numbersOnly THEN NUMBERS ELSE ALPHA_NUMERIC
  IN  [i \in 1..(options.length + 1) |->
         IF i <= options.length
         THEN chars[(randomValues[i] % Len(chars)) + 1] ELSE chars[1]]

\* generate() with the two alphabets exchanged
GenerateSwapped(options, randomValues) ==
  LET chars == IF options.numbersOnly THEN ALPHA_NUMERIC ELSE NUMBERS
  IN  [i \in 1..options.length |-> chars[(randomValues[i] % Len(chars)) + 1]]

\* generate() reducing half the byte value instead of the byte value
GenerateHalved(options, randomValues) ==
  LET chars == IF options.numbersOnly THEN NUMBERS ELSE ALPHA_NUMERIC
  IN  [i \in 1..options.length |->
         chars[((randomValues[i] \div 2) % Len(chars)) + 1]]

\* generate() with an index that carries over from the positions before it
GenerateChained(options, randomValues) ==
  LET chars == IF options.numbersOnly THEN NUMBERS ELSE ALPHA_NUMERIC
      RECURSIVE Sum(_)
      Sum(i) == IF i = 0 THEN 0 ELSE randomValues[i] + Sum(i - 1)
  IN  [i \in 1..options.length |-> chars[(Sum(i) % Len(chars)) + 1]]

\* generate(), given the bytes randomBytes(length) returned
Generate(options, randomValues) ==
  LET chars == IF options.numbersOnly THEN NUMBERS ELSE ALPHA_NUMERIC
  IN  [i \in 1..options.length |-> chars[(randomValues[i] % Len(chars)) + 1]]

\* the byte sequences randomBytes(n) is taken to return
RandomBytes(n) ==
  { [i \in 1..n |-> (seed + ((i - 1) * stride)) % 256] :
      seed \in {1, 255}, stride \in {1} }

(***************************************************************************)
(* OtpService                                                              *)
(***************************************************************************)
\* the two variants of the class found in the sources
Variants == {"nullDefault", "tenMinuteDefault"}

DEFAULT_EXPIRY_TIME_MS == 10 * 60 * 1000

\* the empty object {}
EmptyObject == [k \in {} |-> Undefined]

\* a parameter's value: its default when the argument is undefined
Param(arg, default) == IF arg = Undefined THEN default ELSE arg

\* constructor(options, hashOptions, expiryTimeMs = null)
NewOtpServiceNullDefault(options, hashOptions, expiryTimeMs) ==
  [ variant |-> "nullDefault",
    generator |-> NewOtpGenerator(Param(options, DEFAULT_OTP_OPTIONS)),
    hashService |-> NewOtpHashService(Param(hashOptions, EmptyObject)),
    expiryTimeMs |-> Param(expiryTimeMs, Null) ]

\* constructor(options, hashOptions, expiryTimeMs = DEFAULT_EXPIRY_TIME_MS)
NewOtpServiceTenMinuteDefault(options, hashOptions, expiryTimeMs) ==
  [ variant |-> "tenMinuteDefault",
    generator |-> NewOtpGenerator(Param(options, DEFAULT_OTP_OPTIONS)),
    hashService |-> NewOtpHashService(Param(hashOptions, EmptyObject)),
    expiryTimeMs |-> Param(expiryTimeMs, Num(DEFAULT_EXPIRY_TIME_MS)) ]

\* createOtp() of the null-default variant; clock is what Date.now() returns
CreateOtpNullDefault(s, randomValues, clock) ==
  LET otp == Generate(s.generator, randomValues)
      hash == CreateHash(s.hashService, otp)
      expiresAt == IF Truthy(s.expiryTimeMs)
                   THEN DateOf(clock + s.expiryTimeMs.v)
                   ELSE Undefined
  IN  [otp |-> otp, hash |-> hash, expiresAt |-> expiresAt]

\* createOtp() of the ten-minute-default variant
CreateOtpTenMinuteDefault(s, randomValues, clock) ==
  LET otp == Generate(s.generator, randomValues)
      hash == CreateHash(s.hashService, otp)
  IN  [otp |-> otp, hash |-> hash,
       expiresAt |-> DateOf(clock + s.expiryTimeMs.v)]

\* createOtp committing the code without the configured salt
CreateOtpUnsalted(s, randomValues, clock) ==
  LET otp == Generate(s.generator, randomValues)
      hash == CreateHash([s.hashService EXCEPT !.salt = EmptyString], otp)
  IN  [otp |-> otp, hash |-> hash,
       expiresAt |-> IF Truthy(s.expiryTimeMs)
                     THEN DateOf(clock + s.expiryTimeMs.v)
                     ELSE Undefined]

\* createOtp(): the variant's method
CreateOtp(s, randomValues, clock) ==
  IF s.variant = "nullDefault"
  THEN CreateOtpNullDefault(s, randomValues, clock)
  ELSE CreateOtpTenMinuteDefault(s, randomValues, clock)

\* checkExpiry testing createdAt alone, a null duration counting as 0
CheckExpiryWithoutDuration(s, createdAt, clock) ==
  IF Truthy(createdAt)
  THEN clock > createdAt.ms
               + (IF s.expiryTimeMs.t = "number" THEN s.expiryTimeMs.v ELSE 0)
  ELSE FALSE

\* checkExpiry(createdAt), the same in both variants; clock is the time
\* value of new Date()
CheckExpiry(s, createdAt, clock) ==
  IF Truthy(s.expiryTimeMs) /\ Truthy(createdAt)
  THEN LET expiryTime == DateOf(createdAt.ms + s.expiryTimeMs.v)
       IN  clock > expiryTime.ms
  ELSE FALSE

\* validateOtp always filling in the expired field
ValidateOtpExpiredFalse(s, otp, hash, createdAt, clock) ==
  IF CheckExpiry(s, createdAt, clock)
  THEN [ outcome |-> Return([valid |-> FALSE, expired |-> TRUE]),
         calls |-> <<"checkExpiry">> ]
  ELSE LET v == VerifyHash(s.hashService, otp, hash)
       IN  [ outcome |-> IF v.kind = "throw" THEN v
                         ELSE Return([valid |-> v.value, expired |-> FALSE]),
             calls |-> <<"checkExpiry", "verifyHash", "createHash",
                         "timingSafeEqual">> ]

\* validateOtp verifying the hash before it checks the expiry
ValidateOtpHashFirst(s, otp, hash, createdAt, clock) ==
  LET v == VerifyHash(s.hashService, otp, hash)
  IN  IF v.kind = "throw"
      THEN [ outcome |-> v,
             calls |-> <<"verifyHash", "createHash", "timingSafeEqual">> ]
      ELSE [ outcome |-> IF CheckExpiry(s, createdAt, clock)
                         THEN Return([valid |-> FALSE, expired |-> TRUE])
                         ELSE Return([valid |-> v.value]),
             calls |-> <<"verifyHash", "createHash", "timingSafeEqual",
                         "checkExpiry">> ]

\* validateOtp refusing a code it has already accepted once
ValidateOtpOnce(s, otp, hash, createdAt, clock) ==
  IF CheckExpiry(s, createdAt, clock)
  THEN [ outcome |-> Return([valid |-> FALSE, expired |-> TRUE]),
         calls |-> <<"checkExpiry">> ]
  ELSE LET v == VerifyHash(s.hashService, otp, hash)
           used == /\ seen.t = "validateOtp"
                   /\ seen.otp = otp
                   /\ seen.outcome = Return([valid |-> TRUE])
       IN  [ outcome |-> IF v.kind = "throw" THEN v
                         ELSE Return([valid |-> v.value /\ ~used]),
             calls |-> <<"checkExpiry", "verifyHash", "createHash",
                         "timingSafeEqual">> ]

\* validateOtp(otp, hash, createdAt), the same in both variants: its
\* outcome and the calls it made, in order
ValidateOtp(s, otp, hash, createdAt, clock) ==
  IF CheckExpiry(s, createdAt, clock)
  THEN [ outcome |-> Return([valid |-> FALSE, expired |-> TRUE]),
         calls |-> <<"checkExpiry">> ]
  ELSE LET v == VerifyHash(s.hashService, otp, hash)
       IN  [ outcome |-> IF v.kind = "throw" THEN v
                         ELSE Return([valid |-> v.value]),
             calls |-> <<"checkExpiry", "verifyHash", "createHash",
                         "timingSafeEqual">> ]

(***************************************************************************)
(* The services the model constructs and the arguments it calls them with. *)
(***************************************************************************)
\* generator and hash options passed together to the constructor
OptionInputs ==
  { <<Undefined, Undefined>>,
    <<[length |-> 8, numbersOnly |-> FALSE],
      [algorithm |-> "sha512", salt |-> SaltS1]>> }

\* the constructor calls: the variant's class and its three arguments
CtorInputs ==
  { [variant |-> "nullDefault", options |-> o[1], hashOptions |-> o[2],
     expiryTimeMs |-> e] :
      o \in OptionInputs, e \in {Undefined, Null, Num(0), Num(ExpiryMs)} }
  \cup
  { [variant |-> "tenMinuteDefault", options |-> o[1], hashOptions |-> o[2],
     expiryTimeMs |-> e] :
      o \in OptionInputs, e \in {Undefined, Num(0), Num(ExpiryMs)} }

NewOtpService(c) ==
  IF c.variant = "nullDefault"
  THEN NewOtpServiceNullDefault(c.options, c.hashOptions, c.expiryTimeMs)
  ELSE NewOtpServiceTenMinuteDefault(c.options, c.hashOptions, c.expiryTimeMs)

NoIssue == [t |-> "none"]
NoCall == [t |-> "none"]

\* the code a caller holds: the issued one, else "123456"
HeldCode == IF issued.t = "issued" THEN issued.result.otp ELSE Code123456

\* the commitment a caller stored: the issued one, else the held code's
HeldHash ==
  IF issued.t = "issued" THEN issued.result.hash
  ELSE CreateHash(svc.hashService, HeldCode)

\* a code with its first character changed
Tamper(code) ==
  IF Len(code) = 0 THEN <<57>>
  ELSE [code EXCEPT ![1] = IF code[1] = 57 THEN 48 ELSE 57]

OtherAlgorithm(a) == IF a = "sha256" THEN "sha512" ELSE "sha256"

\* the code strings supplied to validateOtp
OtpInputs == {HeldCode, Tamper(HeldCode), EmptyString}

\* the stored-commitment strings supplied to validateOtp: how each was made
\* and of which code
HashInputs ==
  { [how |-> "commit", of |-> HeldCode, hash |-> HeldHash],
    [how |-> "commit", of |-> Tamper(HeldCode),
     hash |-> CreateHash(svc.hashService, Tamper(HeldCode))],
    [how |-> "otherSalt", of |-> HeldCode,
     hash |-> CreateHash([svc.hashService EXCEPT !.salt = @ \o <<120>>],
                         HeldCode)],
    [how |-> "otherAlgorithm", of |-> HeldCode,
     hash |-> CreateHash([svc.hashService EXCEPT
                            !.algorithm = OtherAlgorithm(@)], HeldCode)],
    [how |-> "truncated", of |-> HeldCode,
     hash |-> SubSeq(HeldHash, 1, Len(HeldHash) - 1)],
    [how |-> "nonAscii", of |-> HeldCode,
     hash |-> [HeldHash EXCEPT ![Len(HeldHash)] = 233]],
    [how |-> "empty", of |-> HeldCode, hash |-> EmptyString] }

\* the ages (milliseconds before now) of the createdAt values supplied
Ages ==
  { 0, ExpiryMs - 1, ExpiryMs, ExpiryMs + 1,
    DEFAULT_EXPIRY_TIME_MS, DEFAULT_EXPIRY_TIME_MS + 1 }

CreatedAtInputs ==
  {Undefined} \cup { DateOf(now - a) : a \in Ages }
  \cup (IF issued.t = "issued" THEN {DateOf(issued.at)} ELSE {})

(***************************************************************************)
(* OtpGenerator and OtpHashService used on their own, setOptions included. *)
(* A field of the hash options holds a string or undefined: callers may    *)
(* write { algorithm: undefined }, and the spread copies it.               *)
(***************************************************************************)
\* the longest code length the standalone generator is configured with
MaxLength == 3

\* a string, as the value of a field that may also hold undefined
Str(s) == [t |-> "string", v |-> s]

\* an options object whose fields all hold strings
Fields(o) == [k \in DOMAIN o |-> Str(o[k])]

\* the strings held by an options object with no undefined field
Strings(o) == [k \in DOMAIN o |-> o[k].v]

\* OtpGenerator.setOptions(options)
OtpGeneratorSetOptions(options, partial) == Spread(options, partial)

\* new OtpHashService(options)
OtpHashServiceNew(options) ==
  Spread(Fields(DEFAULT_HASH_OPTIONS),
         Param(options, Fields(DEFAULT_HASH_OPTIONS)))

\* setOptions merging the provided fields over the defaults
OtpHashServiceSetOptionsOverDefaults(options, partial) ==
  Spread(Fields(DEFAULT_HASH_OPTIONS), partial)

\* OtpHashService.setOptions(options)
OtpHashServiceSetOptions(options, partial) == Spread(options, partial)

\* crypto.createHmac(algorithm, key) throws a TypeError when either
\* argument is undefined
CreateHmacThrows(options) ==
  options.algorithm = Undefined \/ options.salt = Undefined

\* createHash(otp) on options whose fields may hold undefined
OtpHashServiceCreateHash(options, otp) ==
  IF CreateHmacThrows(options) THEN Throw("ERR_INVALID_ARG_TYPE")
  ELSE Return(CreateHash(Strings(options), otp))

\* verifyHash(otp, hash) on options whose fields may hold undefined
OtpHashServiceVerifyHash(options, otp, hash) ==
  IF CreateHmacThrows(options) THEN Throw("ERR_INVALID_ARG_TYPE")
  ELSE VerifyHash(Strings(options), otp, hash)

\* the arguments of new OtpGenerator(options)
GeneratorCtorInputs ==
  { Undefined, EmptyObject, [length |-> MaxLength],
    [length |-> 1, numbersOnly |-> FALSE] }

\* the arguments of OtpGenerator.setOptions(options)
GeneratorOptionInputs ==
  { EmptyObject, [length |-> 1], [length |-> MaxLength],
    [numbersOnly |-> TRUE], [numbersOnly |-> FALSE],
    [length |-> 2, numbersOnly |-> FALSE] }

\* the arguments of new OtpHashService(options)
HashCtorInputs ==
  { Undefined, EmptyObject, [salt |-> Str(SaltS1)],
    [algorithm |-> Undefined] }

\* the arguments of OtpHashService.setOptions(options)
HashOptionInputs ==
  { EmptyObject,
    [algorithm |-> Str("sha256")], [algorithm |-> Str("sha512")],
    [salt |-> Str(EmptyString)], [salt |-> Str(SaltS1)],
    [algorithm |-> Str("sha512"), salt |-> Str(SaltS1)],
    [algorithm |-> Undefined], [salt |-> Undefined] }

\* the byte sequences randomBytes(n) is taken to return for the standalone
\* generator: constant, consecutive and scattered runs from four seeds
RandomValues(n) ==
  { [i \in 1..n |-> (seed + ((i - 1) * stride)) % 256] :
      seed \in {0, 9, 35, 255}, stride \in {0, 1, 37} }

\* the codes supplied to createHash and verifyHash
CodeInputs == {Code123456, Tamper(Code123456), EmptyString}

\* the stored commitments supplied to verifyHash
StoredInputs ==
  { CreateHash(o, Code123456) :
      o \in {DEFAULT_HASH_OPTIONS, [algorithm |-> "sha512", salt |-> SaltS1]} }
  \cup {EmptyString}

NoOp == [t |-> "none"]

\* no logger constructed
LoggerIdle ==
  /\ env = NoOp
  /\ lg = NoOp
  /\ logOp = NoOp
  /\ asked = NoOp

\* no email sender constructed
EmailIdle ==
  /\ senders = << >>
  /\ made = NoOp
  /\ sent = NoOp

\* no S3Service constructed
S3Idle ==
  /\ s3 = NoOp
  /\ s3Op = NoOp

\* no CognitoService constructed
CognitoIdle ==
  /\ cog = NoOp
  /\ cogOp = NoOp

\* no validateOtp call kept
ReplayIdle == seen = NoOp

\* the OtpService machine at rest
OtpIdle ==
  /\ ctor = [variant |-> "nullDefault", options |-> Undefined,
             hashOptions |-> Undefined, expiryTimeMs |-> Undefined]
  /\ svc = NewOtpService(ctor)
  /\ now = 0
  /\ issued = NoIssue
  /\ call = NoCall

\* the standalone generator and hash service at rest
OptionsIdle ==
  /\ gen = NewOtpGenerator(DEFAULT_OTP_OPTIONS)
  /\ hs = OtpHashServiceNew(Undefined)
  /\ op = NoOp
  /\ first = NoOp

\* every machine but one at rest
ExceptOtpIdle ==
  /\ OptionsIdle
  /\ LoggerIdle
  /\ EmailIdle
  /\ S3Idle
  /\ CognitoIdle
  /\ ReplayIdle
ExceptOptionsIdle ==
  /\ OtpIdle
  /\ LoggerIdle
  /\ EmailIdle
  /\ S3Idle
  /\ CognitoIdle
  /\ ReplayIdle
ExceptLoggerIdle ==
  /\ OtpIdle
  /\ OptionsIdle
  /\ EmailIdle
  /\ S3Idle
  /\ CognitoIdle
  /\ ReplayIdle
ExceptEmailIdle ==
  /\ OtpIdle
  /\ OptionsIdle
  /\ LoggerIdle
  /\ S3Idle
  /\ CognitoIdle
  /\ ReplayIdle
ExceptS3Idle ==
  /\ OtpIdle
  /\ OptionsIdle
  /\ LoggerIdle
  /\ EmailIdle
  /\ CognitoIdle
  /\ ReplayIdle
ExceptCognitoIdle ==
  /\ OtpIdle
  /\ OptionsIdle
  /\ LoggerIdle
  /\ EmailIdle
  /\ S3Idle
  /\ ReplayIdle
ExceptReplayIdle ==
  /\ OptionsIdle
  /\ LoggerIdle
  /\ EmailIdle
  /\ S3Idle
  /\ CognitoIdle

\* new OtpGenerator(o), for each of the constructor arguments
GeneratorInit ==
  \E o \in GeneratorCtorInputs :
    gen = NewOtpGenerator(Param(o, DEFAULT_OTP_OPTIONS))

\* new OtpHashService(o), for each of the constructor arguments
HashInit ==
  /\ \E o \in HashCtorInputs : hs = OtpHashServiceNew(o)
  /\ first = NoOp

\* generator.setOptions(partial)
GeneratorSetOptionsCall ==
  /\ \E partial \in GeneratorOptionInputs :
       /\ gen' = OtpGeneratorSetOptions(gen, partial)
       /\ op' = [ t |-> "generator.setOptions", partial |-> partial,
                  before |-> gen ]
  /\ UNCHANGED <<hs, first, exceptOptions>>

\* generator.generate()
GenerateCall ==
  /\ \E randomValues \in RandomValues(gen.length) :
       op' = [ t |-> "generate", randomValues |-> randomValues,
               result |-> Generate(gen, randomValues) ]
  /\ UNCHANGED <<gen, hs, first, exceptOptions>>

\* hashService.setOptions(partial)
HashSetOptionsCall ==
  /\ \E partial \in HashOptionInputs :
       /\ hs' = OtpHashServiceSetOptions(hs, partial)
       /\ op' = [ t |-> "hashService.setOptions", partial |-> partial,
                  before |-> hs ]
  /\ UNCHANGED <<gen, first, exceptOptions>>

\* hashService.createHash(otp); the first such call is remembered, and a
\* later one is marked as a repeat
CreateHashCall ==
  /\ \E otp \in CodeInputs :
       LET r == [ t |-> "createHash", options |-> hs, otp |-> otp,
                  repeat |-> first # NoOp,
                  outcome |-> OtpHashServiceCreateHash(hs, otp) ]
       IN  /\ op' = r
           /\ first' = IF first = NoOp THEN r ELSE first
  /\ UNCHANGED <<gen, hs, exceptOptions>>

\* hashService.verifyHash(otp, hash)
VerifyHashCall ==
  /\ \E otp \in CodeInputs, hash \in StoredInputs :
       op' = [ t |-> "verifyHash", options |-> hs, otp |-> otp,
               hash |-> hash,
               outcome |-> OtpHashServiceVerifyHash(hs, otp, hash) ]
  /\ UNCHANGED <<gen, hs, first, exceptOptions>>

\* a generator used on its own
InitGenerator ==
  /\ GeneratorInit
  /\ hs = OtpHashServiceNew(Undefined)
  /\ first = NoOp
  /\ op = NoOp
  /\ ExceptOptionsIdle

NextGenerator == GeneratorSetOptionsCall \/ GenerateCall

SpecGenerator == InitGenerator /\ [][NextGenerator]_vars

\* a hash service used on its own
InitHash ==
  /\ HashInit
  /\ gen = NewOtpGenerator(DEFAULT_OTP_OPTIONS)
  /\ op = NoOp
  /\ ExceptOptionsIdle

NextHash == HashSetOptionsCall \/ CreateHashCall \/ VerifyHashCall

SpecHash == InitHash /\ [][NextHash]_vars

\* a generator and a hash service used side by side
InitOptions ==
  /\ GeneratorInit
  /\ HashInit
  /\ op = NoOp
  /\ ExceptOptionsIdle

NextOptions ==
  \/ GeneratorSetOptionsCall
  \/ GenerateCall
  \/ HashSetOptionsCall
  \/ CreateHashCall
  \/ VerifyHashCall

SpecOptions == InitOptions /\ [][NextOptions]_vars

(***************************************************************************)
(* The OtpService machine.                                                 *)
(***************************************************************************)
Init ==
  /\ ctor \in CtorInputs
  /\ svc = NewOtpService(ctor)
  /\ now = 0
  /\ issued = NoIssue
  /\ call = NoCall
  /\ ExceptOtpIdle

\* a millisecond passes; the caller has let go of the last result
Tick ==
  /\ now < MaxNow
  /\ now' = now + 1
  /\ call' = NoCall
  /\ UNCHANGED <<ctor, svc, issued, exceptOtp>>

\* createOtp() that also sets the generator back to the default options
CreateOtpCallResetting ==
  /\ \E randomValues \in RandomBytes(svc.generator.length) :
       issued' = [ t |-> "issued", at |-> now,
                   result |-> CreateOtp(svc, randomValues, now) ]
  /\ svc' = [svc EXCEPT !.generator =
                OtpGeneratorSetOptions(@, DEFAULT_OTP_OPTIONS)]
  /\ call' = NoCall
  /\ UNCHANGED <<ctor, now, exceptOtp>>

\* a caller calls createOtp() and keeps the issuance result
CreateOtpCall ==
  /\ \E randomValues \in RandomBytes(svc.generator.length) :
       issued' = [ t |-> "issued", at |-> now,
                   result |-> CreateOtp(svc, randomValues, now) ]
  /\ call' = NoCall
  /\ UNCHANGED <<ctor, svc, now, exceptOtp>>

\* a caller that holds no earlier result calls
\* validateOtp(otp, hash, createdAt) and keeps what it returned or threw
ValidateOtpCall ==
  /\ call = NoCall
  /\ \E otp \in OtpInputs, h \in HashInputs, createdAt \in CreatedAtInputs :
       LET r == ValidateOtp(svc, otp, h.hash, createdAt, now)
       IN  call' = [ t |-> "validateOtp", otp |-> otp, hash |-> h.hash,
                     how |-> h.how, of |-> h.of, createdAt |-> createdAt,
                     outcome |-> r.outcome, calls |-> r.calls ]
  /\ UNCHANGED <<ctor, svc, now, issued, exceptOtp>>

Next == Tick \/ CreateOtpCall \/ ValidateOtpCall

Spec == Init /\ [][Next]_vars

(***************************************************************************)
(* Vocabulary of the properties.                                           *)
(***************************************************************************)
\* the caller holds the outcome of a validateOtp call made at time now
Called == call.t = "validateOtp"

Issued == issued.t = "issued"

\* { valid: false, expired: true }
ExpiredResult == [valid |-> FALSE, expired |-> TRUE]

\* { valid: b }
ValidResult(b) == [valid |-> b]

\* the service was given a duration, not the "never expires" value null
DurationConfigured == svc.expiryTimeMs.t = "number"

CreatedAtSupplied == call.createdAt # Undefined

\* the call was made after createdAt + D
PastExpiry ==
  /\ DurationConfigured
  /\ CreatedAtSupplied
  /\ now > call.createdAt.ms + svc.expiryTimeMs.v

\* what the expression { valid: verifyHash(otp, hash) } evaluates to
ValidOfVerifyHash ==
  LET v == VerifyHash(svc.hashService, call.otp, call.hash)
  IN  IF v.kind = "throw" THEN v ELSE Return(ValidResult(v.value))

CallsMade == { call.calls[i] : i \in DOMAIN call.calls }

(***************************************************************************)
(* C1. Expiry dominates correctness: a service with an expiry duration D   *)
(* configured answers every validateOtp call made when now > createdAt + D *)
(* with exactly {valid:false, expired:true}, whatever the otp and hash;    *)
(* stated here for the case the claim singles out, an otp whose commitment *)
(* equals hash, which must never be answered {valid:true}.                 *)
(* Fails for D = 0, which checkExpiry takes for "no expiry".               *)
(***************************************************************************)
C1_ExpiryDominates ==
  (Called /\ PastExpiry /\ call.how = "commit" /\ call.otp = call.of)
    => call.outcome = Return(ExpiredResult)

(***************************************************************************)
(* C2. The expiry boundary is strict: with a duration D configured and     *)
(* createdAt supplied, validateOtp reports expired iff now > createdAt + D *)
(* and otherwise answers as {valid: verifyHash(otp, hash)} does; stated   *)
(* for the correct code and its commitment.                                *)
(* Fails for D = 0, like C1.                                               *)
(***************************************************************************)
C2_ExpiryBoundaryStrict ==
  ( /\ Called /\ DurationConfigured /\ CreatedAtSupplied
    /\ call.how = "commit" /\ call.otp = call.of ) =>
    /\ (call.outcome = Return(ExpiredResult))
         <=> (now > call.createdAt.ms + svc.expiryTimeMs.v)
    /\ (now <= call.createdAt.ms + svc.expiryTimeMs.v)
         => call.outcome = ValidOfVerifyHash

(***************************************************************************)
(* C3. Verify correctness: under the service's (algorithm, salt),          *)
(* verifyHash(c2, createHash(c)) is true iff c2 = c, and validateOtp of a  *)
(* code against the commitment of another code returns {valid:false}.      *)
(***************************************************************************)
C3_VerifyCorrect ==
  /\ call = NoCall =>
       \A c \in OtpInputs, c2 \in OtpInputs :
         VerifyHash(svc.hashService, c2, CreateHash(svc.hashService, c))
           = Return(c2 = c)
  /\ (Called /\ call.how = "commit" /\ ~CreatedAtSupplied) =>
       call.outcome = Return(ValidResult(call.otp = call.of))

\* a code with one character tampered was validated against the commitment
\* of the original and rejected
C3_Witness ==
  /\ Called /\ call.how = "commit" /\ ~CreatedAtSupplied
  /\ Len(call.of) > 0
  /\ call.otp = Tamper(call.of)
  /\ call.outcome = Return(ValidResult(FALSE))

(***************************************************************************)
(* C4. Issue/validate round trip: r = createOtp() followed by              *)
(* validateOtp(r.otp, r.hash) returns {valid:true} when no createdAt is    *)
(* given, and when createdAt is the issuance time and the call is made no  *)
(* later than the expiry instant.                                          *)
(***************************************************************************)
C4_RoundTrip ==
  ( /\ Called /\ Issued
    /\ call.otp = issued.result.otp
    /\ call.hash = issued.result.hash
    /\ \/ ~CreatedAtSupplied
       \/ /\ call.createdAt = DateOf(issued.at)
          /\ DurationConfigured => now <= issued.at + svc.expiryTimeMs.v )
  => call.outcome = Return(ValidResult(TRUE))

\* an 8-character alphanumeric code under sha512 with salt "s1" was issued
\* and validated, with its issuance time, exactly at the expiry instant
C4_Witness ==
  /\ Called /\ Issued
  /\ Len(issued.result.otp) = 8
  /\ svc.hashService = [algorithm |-> "sha512", salt |-> SaltS1]
  /\ call.otp = issued.result.otp
  /\ call.hash = issued.result.hash
  /\ call.createdAt = DateOf(issued.at)
  /\ svc.expiryTimeMs = Num(ExpiryMs)
  /\ now = issued.at + ExpiryMs
  /\ call.outcome = Return(ValidResult(TRUE))

(***************************************************************************)
(* C5. validateOtp raises no exception: it returns a result for every code *)
(* and every stored commitment, and a commitment whose byte length differs *)
(* from the recomputed digest's (truncated, empty, made under the other    *)
(* algorithm) yields {valid:false}.                                        *)
(* Fails: timingSafeEqual throws on buffers of different byte length.      *)
(***************************************************************************)
C5_NeverThrows ==
  Called =>
    /\ call.outcome.kind = "return"
    /\ ( /\ call.how \in {"truncated", "empty", "otherAlgorithm"}
         /\ "verifyHash" \in CallsMade )
       => call.outcome = Return(ValidResult(FALSE))

(***************************************************************************)
(* C6. createOtp returns an expiresAt iff the expiry policy is not "never  *)
(* expires", and then expiresAt is the issuance instant plus the duration. *)
(* Fails for a duration of 0 in the null-default variant.                  *)
(***************************************************************************)
C6_ExpiresAtIffExpiry ==
  Issued =>
    /\ (issued.result.expiresAt # Undefined) <=> DurationConfigured
    /\ DurationConfigured =>
         issued.result.expiresAt = DateOf(issued.at + svc.expiryTimeMs.v)

(***************************************************************************)
(* C7. A service constructed with no expiry argument has no expiry:        *)
(* createOtp returns expiresAt undefined and validateOtp never reports     *)
(* expired, however old createdAt is.                                      *)
(* Fails in the ten-minute-default variant.                                *)
(***************************************************************************)
C7_NoArgumentNoExpiry ==
  ctor.expiryTimeMs = Undefined =>
    /\ Issued => issued.result.expiresAt = Undefined
    /\ Called => call.outcome # Return(ExpiredResult)

(***************************************************************************)
(* C8. Whenever expiry cannot be evaluated (the expiry is disabled, or no  *)
(* createdAt is supplied) validateOtp answers exactly as                   *)
(* {valid: verifyHash(otp, hash)} does, with no expired field, whatever    *)
(* the clock and however old createdAt is.                                 *)
(***************************************************************************)
C8_NoExpiryEvaluated ==
  (Called /\ (~Truthy(svc.expiryTimeMs) \/ ~CreatedAtSupplied)) =>
    /\ call.outcome = ValidOfVerifyHash
    /\ call.outcome.kind = "return" =>
         DOMAIN call.outcome.value = {"valid"}

\* a service with expiry disabled validated a correct code whose createdAt
\* is older than every duration of the model, and answered {valid:true}
C8_Witness ==
  /\ Called
  /\ svc.expiryTimeMs = Null
  /\ CreatedAtSupplied
  /\ now - call.createdAt.ms > DEFAULT_EXPIRY_TIME_MS
  /\ call.outcome = Return(ValidResult(TRUE))

(***************************************************************************)
(* C9. Every result of validateOtp is {valid:true}, {valid:false} or       *)
(* {valid:false, expired:true}; the last is returned only when the expiry  *)
(* window has elapsed, and a wrong code with no expiry tracking yields     *)
(* {valid:false} with expired absent.                                      *)
(***************************************************************************)
C9_ResultShapes ==
  (Called /\ call.outcome.kind = "return") =>
    /\ call.outcome.value \in
         {ValidResult(TRUE), ValidResult(FALSE), ExpiredResult}
    /\ call.outcome.value = ExpiredResult => PastExpiry
    /\ (call.how = "commit" /\ call.otp # call.of /\ ~CreatedAtSupplied)
         => call.outcome.value = ValidResult(FALSE)

\* a wrong code of a service that tracks expiry was rejected without an
\* expired field, inside the expiry window
C9_Witness ==
  /\ Called
  /\ svc.expiryTimeMs = Num(ExpiryMs)
  /\ CreatedAtSupplied
  /\ now = call.createdAt.ms + ExpiryMs
  /\ call.how = "commit" /\ call.otp # call.of
  /\ call.outcome = Return(ValidResult(FALSE))

(***************************************************************************)
(* C10. Fail fast on expiry: every validateOtp call checks the expiry      *)
(* before any hashing, and a call whose outcome is expired invokes neither *)
(* verifyHash nor createHash.                                              *)
(***************************************************************************)
C10_FailFast ==
  Called =>
    /\ call.calls[1] = "checkExpiry"
    /\ call.outcome = Return(ExpiredResult) =>
         CallsMade \cap {"verifyHash", "createHash", "timingSafeEqual"} = {}

\* an expired call with the correct code and commitment
C10_Witness ==
  /\ Called /\ Issued
  /\ call.otp = issued.result.otp
  /\ call.hash = issued.result.hash
  /\ call.outcome = Return(ExpiredResult)
  /\ call.calls = <<"checkExpiry">>

(***************************************************************************)
(* Properties of the standalone generator and hash service.                *)
(***************************************************************************)
Generated == op.t = "generate"

\* the alphabet the generator is configured with
Alphabet == IF gen.numbersOnly THEN NUMBERS ELSE ALPHA_NUMERIC

\* the values of a byte
ByteValues == 0..255

\* the character generate() puts at position p of a code for each value of
\* the random byte of that position, the other bytes being zero
Picked(p) ==
  [b \in ByteValues |->
     Generate(gen, [i \in 1..gen.length |-> IF i = p THEN b ELSE 0])[p]]

\* the number of byte values that select each character of the alphabet
SelectedBy(picked) ==
  [j \in 1..Len(Alphabet) |->
     Cardinality({b \in ByteValues : picked[b] = Alphabet[j]})]

\* { ...before, ...partial }, field by field: a field partial provides is
\* partial's, any other is as before
MergedOver(after, before, partial) ==
  /\ DOMAIN after = DOMAIN before
  /\ \A k \in DOMAIN before :
       after[k] = IF k \in DOMAIN partial THEN partial[k] ELSE before[k]

\* the hash options with the default in place of an undefined field
Resolved(options) ==
  [ algorithm |-> IF options.algorithm = Undefined
                  THEN DEFAULT_HASH_OPTIONS.algorithm
                  ELSE options.algorithm.v,
    salt |-> IF options.salt = Undefined
             THEN DEFAULT_HASH_OPTIONS.salt ELSE options.salt.v ]

C12_LengthInvariant ==
  (Generated /\ gen.length >= 1) => Len(op.result) = gen.length

C12_Witness ==
  /\ Generated
  /\ gen.length = MaxLength
  /\ Len(op.result) = MaxLength

\* C13: every character generate() returns is a digit when numbersOnly is
\* true, and an upper-case letter or a digit otherwise.
C13_AlphabetInvariant ==
  Generated =>
    \A i \in 1..Len(op.result) :
      IF gen.numbersOnly THEN op.result[i] \in 48..57
      ELSE op.result[i] \in (65..90) \cup (48..57)

C13_Witness ==
  /\ Generated
  /\ ~gen.numbersOnly
  /\ \E i, j \in 1..Len(op.result) :
        op.result[i] \in 65..90 /\ op.result[j] \in 48..57

\* C14, as stated: at every position, every character of the alphabet is
\* selected by the same number of the 256 byte values.
C14_Uniform ==
  Generated =>
    \A p \in 1..gen.length :
      LET count == SelectedBy(Picked(p))
      IN  \A j \in 1..Len(Alphabet) : count[j] = count[1]

\* C14, amended: at every position, with n the size of the alphabet, each
\* of its first 256 mod n characters is selected by floor(256 / n) + 1 byte
\* values and each other character by floor(256 / n).
C14_NearUniform ==
  Generated =>
    \A p \in 1..gen.length :
      LET count == SelectedBy(Picked(p))
          n == Len(Alphabet)
      IN  \A j \in 1..n :
            count[j] = (256 \div n) + (IF j <= (256 % n) THEN 1 ELSE 0)

C14_Witness ==
  /\ Generated
  /\ ~gen.numbersOnly
  /\ gen.length = MaxLength
  /\ SelectedBy(Picked(MaxLength))[4] = 8
  /\ SelectedBy(Picked(MaxLength))[5] = 7

\* C15: after setOptions(partial) on the generator or on the hash service,
\* each field partial provides holds partial's value and every other field
\* the value it had before; generate() and createHash() work from the
\* options as they then stand.
C15_SetOptionsMerges ==
  /\ op.t = "generator.setOptions" => MergedOver(gen, op.before, op.partial)
  /\ op.t = "hashService.setOptions" => MergedOver(hs, op.before, op.partial)
  /\ Generated =>
       /\ Len(op.result) = gen.length
       /\ \A i \in 1..Len(op.result) :
            \E j \in 1..Len(Alphabet) : op.result[i] = Alphabet[j]
  /\ (op.t = "createHash" /\ ~CreateHmacThrows(hs)) =>
       op.outcome =
         Return(Base64(Hmac(hs.algorithm.v, hs.salt.v, op.otp)))

C15_Witness ==
  /\ op.t = "hashService.setOptions"
  /\ DOMAIN op.partial = {"salt"}
  /\ op.before = [algorithm |-> Str("sha512"), salt |-> Str(EmptyString)]
  /\ hs = [algorithm |-> Str("sha512"), salt |-> Str(SaltS1)]
  /\ gen = [length |-> MaxLength, numbersOnly |-> FALSE]

\* C16: createHash never fails for want of an algorithm or a salt: a field
\* left undefined by the constructor's and setOptions' merges counts as the
\* default, so the call returns the commitment under the resolved options.
C16_DefaultsResolve ==
  op.t = "createHash" =>
    op.outcome = Return(CreateHash(Resolved(hs), op.otp))

(***************************************************************************)
(* Properties of the OtpService instance.                                  *)
(***************************************************************************)
\* C17: whatever createOtp and validateOtp calls have been made, in any
\* order and at any times, the instance's generator options, hash options
\* and expiry duration are those its constructor fixed.
C17_ConfigurationFixed ==
  /\ svc = NewOtpService(ctor)
  /\ svc.generator = NewOtpGenerator(Param(ctor.options, DEFAULT_OTP_OPTIONS))
  /\ svc.hashService = NewOtpHashService(Param(ctor.hashOptions, EmptyObject))

C17_Witness ==
  /\ Issued
  /\ Called
  /\ now > issued.at
  /\ svc.generator = [length |-> 8, numbersOnly |-> FALSE]
  /\ svc.hashService = [algorithm |-> "sha512", salt |-> SaltS1]
  /\ svc.expiryTimeMs = Num(ExpiryMs)

(***************************************************************************)
(* LoggerService.  The console is modelled by the console.log calls a      *)
(* method makes; process.env may change between calls.                     *)
(***************************************************************************)
\* enum LogLevel
LogLevel == [VERBOSE |-> 0, DEBUG |-> 1, LOG |-> 2, WARN |-> 3, ERROR |-> 4]

\* a boolean, as the value of a field that may also hold undefined
Bool(b) == [t |-> "boolean", v |-> b]

\* o[k]: undefined when o has no such key
Get(o, k) == IF k \in DOMAIN o THEN o[k] ELSE Undefined

\* String.prototype.toUpperCase, on ASCII strings
ToUpperCase(s) ==
  [i \in 1..Len(s) |-> IF s[i] \in 97..122 THEN s[i] - 32 ELSE s[i]]

\* 'VERBOSE', 'DEBUG', 'LOG', 'WARN', 'ERROR'
LevelNames ==
  [ VERBOSE |-> <<86, 69, 82, 66, 79, 83, 69>>,
    DEBUG |-> <<68, 69, 66, 85, 71>>,
    LOG |-> <<76, 79, 71>>,
    WARN |-> <<87, 65, 82, 78>>,
    ERROR |-> <<69, 82, 82, 79, 82>> ]

\* getLogLevelFromEnv()
GetLogLevelFromEnv(e) ==
  LET envLevel == e.LOG_LEVEL
  IN  IF envLevel = Undefined \/ envLevel = Str(EmptyString) THEN Undefined
      ELSE LET upper == ToUpperCase(envLevel.v)
           IN  CASE upper = LevelNames.VERBOSE -> Num(LogLevel.VERBOSE)
                 [] upper = LevelNames.DEBUG -> Num(LogLevel.DEBUG)
                 [] upper = LevelNames.LOG -> Num(LogLevel.LOG)
                 [] upper = LevelNames.WARN -> Num(LogLevel.WARN)
                 [] upper = LevelNames.ERROR -> Num(LogLevel.ERROR)
                 [] OTHER -> Undefined

\* the constructor looking at config.level before the environment
NewLoggerServiceConfigFirst(e, config) ==
  LET isProduction == e.NODE_ENV = Str("production")
      envLogLevel == GetLogLevelFromEnv(e)
      level == Get(config, "level")
      timestamp == Get(config, "timestamp")
  IN  [ logLevel |->
          IF level # Undefined THEN level.v
          ELSE IF isProduction /\ envLogLevel = Undefined THEN LogLevel.ERROR
          ELSE IF envLogLevel # Undefined THEN envLogLevel.v
          ELSE LogLevel.VERBOSE,
        showTimestamp |-> IF timestamp # Undefined THEN timestamp.v ELSE TRUE,
        isProduction |-> isProduction ]

\* constructor(context, config = {})
NewLoggerService(e, config) ==
  LET isProduction == e.NODE_ENV = Str("production")
      envLogLevel == GetLogLevelFromEnv(e)
      level == Get(config, "level")
      timestamp == Get(config, "timestamp")
  IN  [ logLevel |->
          IF isProduction /\ envLogLevel = Undefined THEN LogLevel.ERROR
          ELSE IF envLogLevel # Undefined THEN envLogLevel.v
          ELSE IF level # Undefined THEN level.v
          ELSE LogLevel.VERBOSE,
        showTimestamp |-> IF timestamp # Undefined THEN timestamp.v ELSE TRUE,
        isProduction |-> isProduction ]

\* setLogLevel(level) that sets the level whatever the environment says
SetLogLevelUnconditional(l, e, level) == [l EXCEPT !.logLevel = level]

\* setLogLevel(level)
SetLogLevel(l, e, level) ==
  IF GetLogLevelFromEnv(e) = Undefined THEN [l EXCEPT !.logLevel = level]
  ELSE l

\* printMessage(args, level): one console.log call
PrintMessage(l, level) ==
  << [color |-> level, timestamp |-> l.showTimestamp] >>

\* printHttpMessage(data): one console.log call
PrintHttpMessage(l) ==
  << [color |-> "HTTP", timestamp |-> l.showTimestamp] >>

\* log(...args): the console.log calls it makes
Log(l) ==
  IF l.logLevel <= LogLevel.LOG THEN PrintMessage(l, LogLevel.LOG) ELSE << >>

\* error(...args)
Error(l) ==
  IF l.logLevel <= LogLevel.ERROR THEN PrintMessage(l, LogLevel.ERROR)
  ELSE << >>

\* warn(...args) gated like log(...args)
WarnGatedAsLog(l) ==
  IF l.logLevel <= LogLevel.LOG THEN PrintMessage(l, LogLevel.WARN) ELSE << >>

\* warn(...args)
Warn(l) ==
  IF l.logLevel <= LogLevel.WARN THEN PrintMessage(l, LogLevel.WARN)
  ELSE << >>

\* debug(...args)
Debug(l) ==
  IF l.logLevel <= LogLevel.DEBUG THEN PrintMessage(l, LogLevel.DEBUG)
  ELSE << >>

\* verbose(...args)
Verbose(l) ==
  IF l.logLevel <= LogLevel.VERBOSE THEN PrintMessage(l, LogLevel.VERBOSE)
  ELSE << >>

\* http(data)
Http(l) ==
  IF l.logLevel <= LogLevel.LOG THEN PrintHttpMessage(l) ELSE << >>

\* the logging methods
Methods == {"verbose", "debug", "log", "warn", "error", "http"}

\* a call of the logging method named m
CallMethod(l, m) ==
  CASE m = "verbose" -> Verbose(l)
    [] m = "debug" -> Debug(l)
    [] m = "log" -> Log(l)
    [] m = "warn" -> Warn(l)
    [] m = "error" -> Error(l)
    [] m = "http" -> Http(l)

\* the levels passed to setLogLevel and as config.level
LevelInputs == { LogLevel[k] : k \in DOMAIN LogLevel }

\* the values of process.env: NODE_ENV unset or 'production'; LOG_LEVEL
\* unset, '', 'debug', 'ERROR' or 'INFO'
EnvInputs ==
  { [NODE_ENV |-> n, LOG_LEVEL |-> v] :
      n \in {Undefined, Str("production")},
      v \in { Undefined, Str(EmptyString), Str(<<100, 101, 98, 117, 103>>),
              Str(LevelNames.ERROR), Str(<<73, 78, 70, 79>>) } }

\* the config arguments of new LoggerService(context, config)
ConfigInputs ==
  {Undefined, [timestamp |-> Bool(FALSE)]}
  \cup { [level |-> Num(v)] : v \in LevelInputs }

\* new LoggerService(context, config); nothing has been asked of it yet
InitLogger ==
  /\ env \in EnvInputs
  /\ \E config \in ConfigInputs :
       /\ lg = NewLoggerService(env, Param(config, EmptyObject))
       /\ asked = [ t |-> "new", env |-> env,
                    config |-> Param(config, EmptyObject) ]
  /\ logOp = NoOp
  /\ ExceptLoggerIdle

\* the process changes an environment variable
SetEnv ==
  /\ \E e \in EnvInputs : e # env /\ env' = e
  /\ UNCHANGED <<lg, logOp, asked, exceptLogger>>

\* logger.setLogLevel(level); no logging call has followed it yet
SetLogLevelCall ==
  /\ \E level \in LevelInputs :
       /\ lg' = SetLogLevel(lg, env, level)
       /\ asked' = [ t |-> "setLogLevel", level |-> level,
                     before |-> lg.logLevel,
                     envLevel |-> env.LOG_LEVEL,
                     overridden |-> GetLogLevelFromEnv(env) # Undefined ]
  /\ logOp' = NoOp
  /\ UNCHANGED <<env, exceptLogger>>

\* a call of one of the logging methods
LogCall ==
  /\ \E m \in Methods :
       logOp' = [t |-> "log", method |-> m, printed |-> CallMethod(lg, m)]
  /\ UNCHANGED <<env, lg, asked, exceptLogger>>

NextLogger == SetEnv \/ SetLogLevelCall \/ LogCall

SpecLogger == InitLogger /\ [][NextLogger]_vars

(***************************************************************************)
(* Properties of the logger.                                               *)
(***************************************************************************)
Logged == logOp.t = "log"

\* the level of a logging method: its own for verbose, debug, log, warn and
\* error; LOG for http
MethodLevel(m) ==
  CASE m = "verbose" -> LogLevel.VERBOSE
    [] m = "debug" -> LogLevel.DEBUG
    [] m = "log" -> LogLevel.LOG
    [] m = "warn" -> LogLevel.WARN
    [] m = "error" -> LogLevel.ERROR
    [] m = "http" -> LogLevel.LOG

\* the last logging call printed exactly one console line iff level is at
\* most its method's level, and nothing otherwise
FilteredAgainst(level) ==
  Len(logOp.printed) = IF level <= MethodLevel(logOp.method) THEN 1 ELSE 0

\* C18: a call of verbose, debug, log, warn or error makes exactly one
\* console.log call when the logger's level is at most the method's level
\* and none otherwise; http() does so against the level LOG.
C18_LevelFiltering == Logged => FilteredAgainst(lg.logLevel)

C18_Witness ==
  /\ Logged
  /\ logOp.method = "warn"
  /\ lg.logLevel = LogLevel.WARN
  /\ Len(logOp.printed) = 1

\* C19, as stated: a logging call that follows setLogLevel(L) is filtered
\* against L.
C19_SetLogLevelTakesEffect ==
  (Logged /\ asked.t = "setLogLevel") => FilteredAgainst(asked.level)

\* C19, amended: a logging call that follows setLogLevel(L) is filtered
\* against L when LOG_LEVEL named no valid level at the time of the
\* setLogLevel call, and against the level the logger had before the call
\* when it did.
C19_SetLogLevelUnlessEnv ==
  asked.t = "setLogLevel" =>
    LET effective == IF asked.overridden THEN asked.before ELSE asked.level
    IN  /\ lg.logLevel = effective
        /\ Logged => FilteredAgainst(effective)

C19_Witness ==
  /\ Logged
  /\ asked.t = "setLogLevel"
  /\ ~asked.overridden
  /\ asked.before = LogLevel.ERROR
  /\ asked.level = LogLevel.WARN
  /\ logOp.method = "warn"
  /\ Len(logOp.printed) = 1

(***************************************************************************)
(* EmailSenderFactory.  The type field of a config holds any value; the    *)
(* other fields are those of an SmtpConfig or an AwsConfig.                *)
(***************************************************************************)
\* the most senders the model constructs
MaxSenders == 3

\* new Error(message)
ErrorOf(message) == [t |-> "Error", message |-> message]

\* `${x}` for a string, undefined, null or an Error (whose toString gives
\* 'Error: ' and the message, or 'Error' alone when the message is empty)
TemplateString(x) ==
  CASE x.t = "string" -> x.v
    [] x.t = "undefined" -> "undefined"
    [] x.t = "null" -> "null"
    [] x.t = "Error" -> IF x.message = "" THEN "Error"
                        ELSE "Error: " \o x.message

\* new NodemailerSender(config): the transporter made of the config
NewNodemailerSender(config) ==
  [class |-> "NodemailerSender", transporter |-> [options |-> config]]

\* new AwsSender(config): the SES client made of the config's fields
NewAwsSender(config) ==
  [ class |-> "AwsSender",
    ses |-> [ apiVersion |-> "2010-12-01",
              region |-> Get(config, "region"),
              credentials |->
                [ accessKeyId |-> Get(config, "accessKeyId"),
                  secretAccessKey |-> Get(config, "secretAccessKey") ] ] ]

\* createSender(config) returning a NodemailerSender for any unknown type
CreateSenderDefaultingToSmtp(config) ==
  IF Get(config, "type") = Str("aws")
  THEN LET sender == NewAwsSender(config)
       IN  [outcome |-> Return(sender), constructed |-> <<sender>>]
  ELSE LET sender == NewNodemailerSender(config)
       IN  [outcome |-> Return(sender), constructed |-> <<sender>>]

\* EmailSenderFactory.createSender(config): its outcome and the senders it
\* constructed
CreateSender(config) ==
  IF Get(config, "type") = Str("smtp")
  THEN LET sender == NewNodemailerSender(config)
       IN  [outcome |-> Return(sender), constructed |-> <<sender>>]
  ELSE IF Get(config, "type") = Str("aws")
  THEN LET sender == NewAwsSender(config)
       IN  [outcome |-> Return(sender), constructed |-> <<sender>>]
  ELSE [ outcome |->
           Throw([ name |-> "Error",
                   message |-> "unsupported email sender type: "
                                 \o TemplateString(Get(config, "type")) ]),
         constructed |-> << >> ]

\* the fields of the SMTP configs passed to the factory
SmtpFields ==
  { [host |-> h, port |-> 587, secure |-> FALSE,
     auth |-> [user |-> "test@example.com", pass |-> "password"]] :
      h \in {"smtp.test.com", "mail.example.org"} }

\* the fields of the AWS configs passed to the factory
AwsFields ==
  { [accessKeyId |-> "test-key", secretAccessKey |-> "test-secret",
     region |-> g] : g \in {"us-east-1", "eu-west-1"} }

\* the values of the type field: the two supported ones and others
TypeInputs ==
  { Str("smtp"), Str("aws"), Str("invalid-type"), Str("SMTP"), Str(""),
    Null, Undefined }

\* the configs passed to the factory; one has no type key at all
EmailConfigInputs ==
  { Spread(f, [type |-> ty]) :
      f \in SmtpFields \cup AwsFields, ty \in TypeInputs }
  \cup SmtpFields

InitEmail ==
  /\ senders = << >>
  /\ made = NoOp
  /\ sent = NoOp
  /\ ExceptEmailIdle

\* a caller calls EmailSenderFactory.createSender(config)
CreateSenderCall ==
  /\ Len(senders) < MaxSenders
  /\ \E config \in EmailConfigInputs :
       LET r == CreateSender(config)
       IN  /\ senders' = senders \o r.constructed
           /\ made' = [ t |-> "createSender", config |-> config,
                        outcome |-> r.outcome, before |-> Len(senders) ]
  /\ UNCHANGED <<sent, exceptEmail>>

\* an array
Arr(a) == [t |-> "array", v |-> a]

\* the settlement of a promise
Resolve(v) == [kind |-> "resolve", value |-> v]
Reject(e) == [kind |-> "reject", error |-> e]

\* Array.prototype.join(separator) on an array of strings
RECURSIVE Join(_, _)
Join(a, separator) ==
  IF Len(a) = 0 THEN ""
  ELSE IF Len(a) = 1 THEN a[1]
  ELSE a[1] \o separator \o Join(Tail(a), separator)

\* Array.isArray(to) ? to.join(',') : to
JoinedRecipients(to) == IF to.t = "array" THEN Str(Join(to.v, ",")) ELSE to

\* the message object handed to a nodemailer transport's sendMail
MailOptions(emailData) ==
  [ from |-> emailData.from,
    to |-> JoinedRecipients(emailData.to),
    subject |-> emailData.subject,
    text |-> Get(emailData, "text"),
    html |-> Get(emailData, "html"),
    attachments |-> Get(emailData, "attachments") ]

\* NodemailerSender.send letting a sendMail failure through as it is
NodemailerSendUnwrapped(sender, emailData, settles) ==
  [ calls |-> << [fn |-> "transporter.sendMail",
                  args |-> MailOptions(emailData)] >>,
    outcome |-> settles ]

\* NodemailerSender.send(emailData), settles being how the transporter's
\* sendMail promise settles: the calls it makes and how its promise settles
NodemailerSend(sender, emailData, settles) ==
  [ calls |-> << [fn |-> "transporter.sendMail",
                  args |-> MailOptions(emailData)] >>,
    outcome |->
      IF settles.kind = "resolve" THEN Resolve(settles.value)
      ELSE Reject(ErrorOf("failed to send email with nodemailer: "
                            \o TemplateString(settles.error))) ]

\* AwsSender.sendSimpleEmail(emailData); a text or html that is given is a
\* non-empty string
SendSimpleEmail(sender, emailData, settles) ==
  LET body ==
        Spread(IF Truthy(Get(emailData, "text"))
               THEN [Text |-> [Data |-> emailData.text]] ELSE EmptyObject,
               IF Truthy(Get(emailData, "html"))
               THEN [Html |-> [Data |-> emailData.html]] ELSE EmptyObject)
      params ==
        [ Source |-> emailData.from,
          Destination |->
            [ToAddresses |-> IF emailData.to.t = "array" THEN emailData.to
                             ELSE Arr(<<emailData.to.v>>)],
          Message |-> [Subject |-> [Data |-> emailData.subject],
                       Body |-> body] ]
  IN  [ calls |-> << [fn |-> "ses.sendEmail", args |-> params] >>,
        outcome |-> settles ]

\* AwsSender.sendWithAttachments(emailData)
SendWithAttachments(sender, emailData, settles) ==
  [ calls |-> << [fn |-> "rawMailer.sendMail",
                  args |-> MailOptions(emailData)] >>,
    outcome |-> settles ]

\* AwsSender.send(emailData): it returns the promise of the private method
\* without awaiting it, so that promise's rejection is not caught by the
\* try block and settles the promise send returned
AwsSend(sender, emailData, settles) ==
  LET attachments == Get(emailData, "attachments")
  IN  IF Truthy(attachments) /\ Len(attachments.v) > 0
      THEN SendWithAttachments(sender, emailData, settles)
      ELSE SendSimpleEmail(sender, emailData, settles)

\* the emails sent: one or several recipients, with and without a text
\* body, without attachments, with none in the list and with one
EmailDataInputs ==
  { Spread([from |-> "sender@example.com", to |-> to,
            subject |-> "Test Email"], rest) :
      to \in { Str("recipient@example.com"),
               Arr(<<"recipient1@example.com", "recipient2@example.com">>),
               Arr(<<"recipient@example.com">>) },
      rest \in { [text |-> Str("This is a test email")],
                 [html |-> Str("<p>test</p>"), attachments |-> Arr(<< >>)],
                 [text |-> Str("This is a test email"),
                  attachments |->
                    Arr(<<[filename |-> "test.txt", content |-> "x"]>>)] } }

\* how the underlying sendMail or sendEmail promise settles: with the
\* provider's result, or rejected with an Error or with a string
SettleInputs ==
  { Resolve([messageId |-> "test-message-id"]),
    Reject(ErrorOf("SMTP error")),
    Reject(ErrorOf("")),
    Reject(Str("timeout")) }

\* a caller calls send(emailData) on one of the senders constructed
SendCall ==
  /\ \E k \in 1..Len(senders), emailData \in EmailDataInputs,
        settles \in SettleInputs :
       LET r == IF senders[k].class = "NodemailerSender"
                THEN NodemailerSend(senders[k], emailData, settles)
                ELSE AwsSend(senders[k], emailData, settles)
       IN  sent' = [ t |-> "send", class |-> senders[k].class,
                     emailData |-> emailData, settles |-> settles,
                     calls |-> r.calls, outcome |-> r.outcome ]
  /\ UNCHANGED <<senders, made, exceptEmail>>

NextEmail == CreateSenderCall

SpecEmail == InitEmail /\ [][NextEmail]_vars

(***************************************************************************)
(* Properties of the email sender factory.                                 *)
(***************************************************************************)
Made == made.t = "createSender"

\* the call constructed exactly one sender, the one it returned
ReturnedTheOneConstructed ==
  /\ made.outcome.kind = "return"
  /\ Len(senders) = made.before + 1
  /\ senders[Len(senders)] = made.outcome.value

\* C20: createSender(config) returns a NodemailerSender whose transporter
\* was created from config when config.type is 'smtp', and an AwsSender
\* whose SES client has config's region and credentials when it is 'aws';
\* for any other type it throws Error 'unsupported email sender type:
\* <type>' and constructs no sender.
C20_FactoryDispatch ==
  Made =>
    LET type == Get(made.config, "type")
    IN  IF type = Str("smtp")
        THEN /\ ReturnedTheOneConstructed
             /\ made.outcome.value.class = "NodemailerSender"
             /\ made.outcome.value.transporter.options = made.config
        ELSE IF type = Str("aws")
        THEN /\ ReturnedTheOneConstructed
             /\ made.outcome.value.class = "AwsSender"
             /\ made.outcome.value.ses.region = Get(made.config, "region")
             /\ made.outcome.value.ses.credentials.accessKeyId
                  = Get(made.config, "accessKeyId")
             /\ made.outcome.value.ses.credentials.secretAccessKey
                  = Get(made.config, "secretAccessKey")
        ELSE /\ made.outcome.kind = "throw"
             /\ made.outcome.error.name = "Error"
             /\ made.outcome.error.message
                  = "unsupported email sender type: " \o TemplateString(type)
             /\ Len(senders) = made.before

C20_Witness ==
  /\ Made
  /\ made.outcome =
       Throw([ name |-> "Error",
               message |-> "unsupported email sender type: invalid-type" ])
  /\ Len(senders) = 2
  /\ senders[1].class = "AwsSender"
  /\ senders[2].class = "NodemailerSender"
  /\ senders[2].transporter.options.type = Str("smtp")

\* a sender the factory constructed from one of the configs, before any send
InitSend ==
  /\ \E config \in EmailConfigInputs :
       /\ CreateSender(config).outcome.kind = "return"
       /\ senders = CreateSender(config).constructed
  /\ made = NoOp
  /\ sent = NoOp
  /\ ExceptEmailIdle

NextSend == SendCall

SpecSend == InitSend /\ [][NextSend]_vars

(***************************************************************************)
(* Properties of the email senders.                                        *)
(***************************************************************************)
Sent == sent.t = "send"

\* the attachments of the email sent make a non-empty list
HasAttachments ==
  /\ "attachments" \in DOMAIN sent.emailData
  /\ Len(sent.emailData.attachments.v) > 0

\* the recipients as one string: the only one, or all joined by commas
RecipientsAsString ==
  LET to == sent.emailData.to
  IN  IF to.t = "string" THEN to.v
      ELSE IF Len(to.v) = 1 THEN to.v[1]
      ELSE to.v[1] \o "," \o to.v[2]

\* C21: NodemailerSender.send makes one sendMail call on its transporter,
\* with the recipients as one string (an array joined by commas, a single
\* recipient as given); it resolves with what sendMail resolved with, and
\* when sendMail rejects it rejects with an Error whose message is 'failed
\* to send email with nodemailer: ' followed by the original error.
C21_NodemailerSend ==
  (Sent /\ sent.class = "NodemailerSender") =>
    /\ Len(sent.calls) = 1
    /\ sent.calls[1].fn = "transporter.sendMail"
    /\ sent.calls[1].args.to = Str(RecipientsAsString)
    /\ sent.settles.kind = "resolve" =>
         sent.outcome = Resolve(sent.settles.value)
    /\ sent.settles.kind = "reject" =>
         /\ sent.outcome.kind = "reject"
         /\ sent.outcome.error.t = "Error"
         /\ sent.outcome.error.message =
              "failed to send email with nodemailer: "
                \o TemplateString(sent.settles.error)

C21_Witness ==
  /\ Sent
  /\ sent.class = "NodemailerSender"
  /\ sent.emailData.to.t = "array"
  /\ sent.calls[1].args.to =
       Str("recipient1@example.com,recipient2@example.com")
  /\ sent.outcome =
       Reject(ErrorOf("failed to send email with nodemailer: Error: SMTP error"))

\* C29: AwsSender.send sends an email with a non-empty attachments list by
\* the raw-mail sendMail and every other email by sendEmail, and whenever
\* that call fails it rejects with an Error whose message is 'failed to send
\* email with aws ses: ' followed by the original error.
C29_AwsSendWraps ==
  (Sent /\ sent.class = "AwsSender") =>
    /\ Len(sent.calls) = 1
    /\ sent.calls[1].fn = IF HasAttachments THEN "rawMailer.sendMail"
                          ELSE "ses.sendEmail"
    /\ sent.settles.kind = "reject" =>
         sent.outcome =
           Reject(ErrorOf("failed to send email with aws ses: "
                            \o TemplateString(sent.settles.error)))

(***************************************************************************)
(* S3Service: a wrapper of the S3 client.  Each method builds one command  *)
(* and hands it to the client (or to the presigner); settles is how the    *)
(* promise of that call settles.  A method's result is the calls it made   *)
(* and how its own promise settles.                                        *)
(***************************************************************************)
NewS3Service(config) ==
  [ s3Client |-> [ region |-> config.region,
                   credentials |->
                     [ accessKeyId |-> config.accessKeyId,
                       secretAccessKey |-> config.secretAccessKey ] ],
    bucketName |-> config.bucketName ]

\* this.s3Client.send(new <name>(input))
ClientSend(name, input) ==
  << [fn |-> "s3Client.send", command |-> [name |-> name, input |-> input]] >>

\* `await this.s3Client.send(command);` as the method's last statement
AwaitOnly(settles) ==
  IF settles.kind = "resolve" THEN Resolve(Undefined) ELSE settles

UploadFile(service, key, body, metadata, settles) ==
  [ calls |-> ClientSend("PutObjectCommand",
                         [ Bucket |-> service.bucketName, Key |-> key,
                           Body |-> body, Metadata |-> metadata ]),
    outcome |-> AwaitOnly(settles) ]

\* the response's Body settles its transformToString() in its own turn
GetFile(service, key, settles) ==
  [ calls |-> ClientSend("GetObjectCommand",
                         [Bucket |-> service.bucketName, Key |-> key]),
    outcome |->
      IF settles.kind = "reject" THEN settles
      ELSE LET read == settles.value.Body.transformToString
           IN  IF read.kind = "reject" THEN read
               ELSE Resolve([t |-> "Buffer", from |-> read.value]) ]

DeleteFile(service, key, settles) ==
  [ calls |-> ClientSend("DeleteObjectCommand",
                         [Bucket |-> service.bucketName, Key |-> key]),
    outcome |-> AwaitOnly(settles) ]

ListFiles(service, prefix, settles) ==
  [ calls |-> ClientSend("ListObjectsV2Command",
                         [Bucket |-> service.bucketName, Prefix |-> prefix]),
    outcome |->
      IF settles.kind = "reject" THEN settles
      ELSE LET Contents == Get(settles.value, "Contents")
               keys == [i \in 1..Len(Contents.v) |-> Contents.v[i].Key]
           IN  IF Truthy(Contents)
               THEN Resolve(Arr(SelectSeq(keys, Truthy)))
               ELSE Resolve(Arr(<< >>)) ]

CopyFile(service, sourceKey, destinationKey, settles) ==
  [ calls |-> ClientSend("CopyObjectCommand",
                         [ Bucket |-> service.bucketName,
                           CopySource |-> "/" \o service.bucketName \o "/"
                                            \o sourceKey,
                           Key |-> destinationKey ]),
    outcome |-> AwaitOnly(settles) ]

\* no command is sent: the presigner is called, and its promise returned
GetPresignedUrl(service, key, expiresInSeconds, settles) ==
  [ calls |-> << [ fn |-> "getSignedUrl",
                   command |-> [ name |-> "GetObjectCommand",
                                 input |-> [ Bucket |-> service.bucketName,
                                             Key |-> key ] ],
                   options |-> [expiresIn |-> expiresInSeconds] ] >>,
    outcome |-> settles ]

\* getFileMetadata letting the request's failure through
GetFileMetadataRethrowing(service, key, settles) ==
  [ calls |-> ClientSend("HeadObjectCommand",
                         [Bucket |-> service.bucketName, Key |-> key]),
    outcome |->
      IF settles.kind = "resolve"
      THEN Resolve(Get(settles.value, "Metadata"))
      ELSE settles ]

GetFileMetadata(service, key, settles) ==
  [ calls |-> ClientSend("HeadObjectCommand",
                         [Bucket |-> service.bucketName, Key |-> key]),
    outcome |->
      IF settles.kind = "resolve"
      THEN Resolve(Get(settles.value, "Metadata"))
      ELSE Resolve(Undefined) ]

\* the configs the services are constructed from
S3ConfigInputs ==
  { [ region |-> "eu-west-1", accessKeyId |-> "test-access-key",
      secretAccessKey |-> "test-secret-key", bucketName |-> b ] :
      b \in {"test-bucket", "other-bucket"} }

\* the keys of the objects asked for
KeyInputs == {"test-file.txt", "non-existent-file.txt"}

\* how a request fails: rejected with an Error or with another value
FailureInputs == { Reject(ErrorOf("Upload failed")), Reject(Str("timeout")) }

InitS3 ==
  /\ s3 \in { NewS3Service(config) : config \in S3ConfigInputs }
  /\ s3Op = NoOp
  /\ ExceptS3Idle

\* the record of a call: the method, its arguments, how the request settled,
\* the calls the method made and how its promise settled
S3Called(method, args, settles, r) ==
  [ t |-> "call", method |-> method, args |-> args, settles |-> settles,
    calls |-> r.calls, outcome |-> r.outcome ]

UploadFileCall ==
  /\ \E key \in KeyInputs,
        metadata \in {Undefined, [contentType |-> "text/plain"]},
        settles \in {Resolve(EmptyObject)} \cup FailureInputs :
       s3Op' = S3Called("uploadFile",
                    [key |-> key, body |-> "test content", metadata |-> metadata],
                    settles,
                    UploadFile(s3, key, "test content", metadata, settles))
  /\ UNCHANGED <<s3, exceptS3>>

GetFileCall ==
  /\ \E key \in KeyInputs,
        settles \in
          { Resolve([Body |-> [transformToString |-> read]]) :
              read \in { Resolve("test file content"),
                         Reject(ErrorOf("stream closed")) } }
          \cup FailureInputs :
       s3Op' = S3Called("getFile", [key |-> key], settles, GetFile(s3, key, settles))
  /\ UNCHANGED <<s3, exceptS3>>

DeleteFileCall ==
  /\ \E key \in KeyInputs, settles \in {Resolve(EmptyObject)} \cup FailureInputs :
       s3Op' = S3Called("deleteFile", [key |-> key], settles,
                    DeleteFile(s3, key, settles))
  /\ UNCHANGED <<s3, exceptS3>>

ListFilesCall ==
  /\ \E prefix \in {Undefined, Str("folder/")},
        settles \in
          { Resolve(EmptyObject),
            Resolve([Contents |-> Arr(<< >>)]),
            Resolve([Contents |-> Arr(<< [Key |-> Str("folder/file1.txt")],
                                         [Key |-> Str("folder/file2.txt")] >>)]),
            Resolve([Contents |-> Arr(<< [Key |-> Undefined],
                                         [Key |-> Str("folder/file2.txt")] >>)]) }
          \cup FailureInputs :
       s3Op' = S3Called("listFiles", [prefix |-> prefix], settles,
                    ListFiles(s3, prefix, settles))
  /\ UNCHANGED <<s3, exceptS3>>

CopyFileCall ==
  /\ \E sourceKey \in KeyInputs,
        settles \in {Resolve(EmptyObject)} \cup FailureInputs :
       s3Op' = S3Called("copyFile",
                    [sourceKey |-> sourceKey, destinationKey |-> "copy.txt"],
                    settles, CopyFile(s3, sourceKey, "copy.txt", settles))
  /\ UNCHANGED <<s3, exceptS3>>

GetPresignedUrlCall ==
  /\ \E key \in KeyInputs,
        settles \in {Resolve("https://presigned-url.com")} \cup FailureInputs :
       s3Op' = S3Called("getPresignedUrl", [key |-> key, expiresInSeconds |-> 3600],
                    settles, GetPresignedUrl(s3, key, 3600, settles))
  /\ UNCHANGED <<s3, exceptS3>>

GetFileMetadataCall ==
  /\ \E key \in KeyInputs,
        settles \in { Resolve([Metadata |-> [contentType |-> "text/plain"]]),
                      Resolve(EmptyObject) } \cup FailureInputs :
       s3Op' = S3Called("getFileMetadata", [key |-> key], settles,
                    GetFileMetadata(s3, key, settles))
  /\ UNCHANGED <<s3, exceptS3>>

NextS3 ==
  \/ UploadFileCall
  \/ GetFileCall
  \/ DeleteFileCall
  \/ ListFilesCall
  \/ CopyFileCall
  \/ GetPresignedUrlCall
  \/ GetFileMetadataCall

SpecS3 == InitS3 /\ [][NextS3]_vars

(***************************************************************************)
(* Properties of S3Service.                                                *)
(***************************************************************************)
S3Did == s3Op.t = "call"

\* the one request of the call failed
RequestFailed == s3Op.settles.kind = "reject"

\* C22: getFileMetadata never rejects: it resolves to the object's metadata
\* when its request succeeds and to undefined when the request fails; every
\* other method makes exactly one request, and when that request fails it
\* rejects with the error the request failed with.
C22_S3Errors ==
  S3Did =>
    /\ Len(s3Op.calls) = 1
    /\ s3Op.method = "getFileMetadata" =>
         /\ s3Op.outcome.kind = "resolve"
         /\ s3Op.outcome.value =
              IF RequestFailed THEN Undefined
              ELSE Get(s3Op.settles.value, "Metadata")
    /\ (s3Op.method # "getFileMetadata" /\ RequestFailed) =>
         s3Op.outcome = Reject(s3Op.settles.error)

C22_Witness ==
  /\ S3Did
  /\ s3Op.method = "getFileMetadata"
  /\ s3Op.settles = Reject(ErrorOf("Upload failed"))
  /\ s3Op.outcome = Resolve(Undefined)

(***************************************************************************)
(* CognitoService: a wrapper of the Cognito identity provider client.      *)
(* settles is how the promise of this.client.send(command) settles; a      *)
(* method's result is the commands it sent, the messages it gave to        *)
(* this.logger.error and how its own promise settles.                      *)
(***************************************************************************)
\* a plain object held where undefined may be held too
Obj(r) == [t |-> "object", v |-> r]

NewCognitoService(config) ==
  [ client |-> [region |-> config.region],
    userPoolId |-> config.userPoolId,
    clientId |-> config.clientId,
    enableCognitoEmail |-> config.enableCognitoEmail ]

\* new <name>(input)
Command(name, input) == [name |-> name, input |-> input]

\* the try block of an admin method without its catch: a failure of the
\* command rejects the method and nothing is logged
SendOrRethrow(command, doing, settles) ==
  [ calls |-> <<command>>,
    logged |-> << >>,
    outcome |-> IF settles.kind = "resolve" THEN Resolve(Bool(TRUE))
                ELSE settles ]

\* try { await this.client.send(command); return true; }
\* catch (error) { this.logger.error(`error <doing>: ${error}`); return false; }
SendOrLog(command, doing, settles) ==
  [ calls |-> <<command>>,
    logged |-> IF settles.kind = "resolve" THEN << >>
               ELSE << "error " \o doing \o ": "
                         \o TemplateString(settles.error) >>,
    outcome |-> Resolve(Bool(settles.kind = "resolve")) ]

SetUserPassword(service, params, settles) ==
  SendOrLog(Command("AdminSetUserPasswordCommand",
                    [ UserPoolId |-> service.userPoolId,
                      Username |-> params.username,
                      Password |-> params.password,
                      Permanent |-> params.permanent ]),
            "setting user password", settles)

\* additionalAttributes, when given, holds one attribute
AddUser(service, params, settles) ==
  LET verified == IF params.isVerified THEN "true" ELSE "false"
      phone == Get(params, "phoneNumber")
      more == Get(params, "additionalAttributes")
      key == CHOOSE k \in DOMAIN more.v : TRUE
      userAttributes ==
        << [Name |-> "email", Value |-> params.email],
           [Name |-> "email_verified", Value |-> verified] >>
        \o (IF Truthy(phone)
            THEN << [Name |-> "phone_number", Value |-> phone.v],
                    [Name |-> "phone_number_verified", Value |-> verified] >>
            ELSE << >>)
        \o (IF Truthy(more)
            THEN << [Name |-> key, Value |-> more.v[key]] >>
            ELSE << >>)
  IN  SendOrLog(Command("AdminCreateUserCommand",
                        [ UserPoolId |-> service.userPoolId,
                          Username |-> params.username,
                          UserAttributes |-> userAttributes,
                          TemporaryPassword |-> params.temporaryPassword,
                          MessageAction |->
                            IF service.enableCognitoEmail THEN Undefined
                            ELSE Str("SUPPRESS") ]),
                "adding user", settles)

RemoveUser(service, username, settles) ==
  SendOrLog(Command("AdminDeleteUserCommand",
                    [ UserPoolId |-> service.userPoolId,
                      Username |-> username ]),
            "removing user", settles)

ChangeUserEmail(service, params, settles) ==
  SendOrLog(Command("AdminUpdateUserAttributesCommand",
                    [ UserPoolId |-> service.userPoolId,
                      Username |-> params.username,
                      UserAttributes |->
                        << [Name |-> "email", Value |-> params.newEmail],
                           [Name |-> "email_verified", Value |-> "true"] >> ]),
            "changing user email", settles)

ChangePhoneNumber(service, params, settles) ==
  SendOrLog(Command("AdminUpdateUserAttributesCommand",
                    [ UserPoolId |-> service.userPoolId,
                      Username |-> params.username,
                      UserAttributes |->
                        << [ Name |-> "phone_number",
                             Value |-> params.newPhoneNumber ],
                           [ Name |-> "phone_number_verified",
                             Value |-> "true" ] >> ]),
            "changing phone number", settles)

VerifyUser(service, username, settles) ==
  SendOrLog(Command("AdminEnableUserCommand",
                    [ UserPoolId |-> service.userPoolId,
                      Username |-> username ]),
            "verifying user", settles)

\* error instanceof Error ? error.message : String(error)
MessageOf(error) == IF error.t = "Error" THEN error.message ELSE error.v

\* the command login sends
InitiateAuth(service, params) ==
  Command("AdminInitiateAuthCommand",
          [ UserPoolId |-> service.userPoolId,
            ClientId |-> service.clientId,
            AuthFlow |-> "ADMIN_USER_PASSWORD_AUTH",
            AuthParameters |-> [ USERNAME |-> params.username,
                                 PASSWORD |-> params.password ] ])

\* the success result made of a response's AuthenticationResult
Tokens(response) ==
  LET result == response.AuthenticationResult.v
  IN  [ success |-> TRUE,
        accessToken |-> Get(result, "AccessToken"),
        idToken |-> Get(result, "IdToken"),
        refreshToken |-> Get(result, "RefreshToken"),
        expiresIn |-> Get(result, "ExpiresIn"),
        tokenType |-> Get(result, "TokenType") ]

\* login looking at the AuthenticationResult before the challenge
LoginResultFirst(service, params, settles) ==
  LET response == settles.value
  IN  [ calls |-> <<InitiateAuth(service, params)>>,
        logged |-> IF settles.kind = "resolve" THEN << >>
                   ELSE << "error logging in: "
                             \o TemplateString(settles.error) >>,
        outcome |->
          IF settles.kind = "reject"
          THEN Resolve([success |-> FALSE, error |-> MessageOf(settles.error)])
          ELSE IF Truthy(Get(response, "AuthenticationResult"))
          THEN Resolve(Tokens(response))
          ELSE IF Get(response, "ChallengeName") = Str("NEW_PASSWORD_REQUIRED")
          THEN Resolve([ success |-> FALSE,
                         challengeName |-> response.ChallengeName,
                         challengeParameters |->
                           IF Truthy(Get(response, "ChallengeParameters"))
                           THEN response.ChallengeParameters
                           ELSE Obj(EmptyObject),
                         error |-> "new password required" ])
          ELSE Resolve([ success |-> FALSE,
                         error |-> "no authentication result returned" ]) ]

Login(service, params, settles) ==
  LET response == settles.value
  IN  [ calls |-> <<InitiateAuth(service, params)>>,
        logged |-> IF settles.kind = "resolve" THEN << >>
                   ELSE << "error logging in: "
                             \o TemplateString(settles.error) >>,
        outcome |->
          IF settles.kind = "reject"
          THEN Resolve([success |-> FALSE, error |-> MessageOf(settles.error)])
          ELSE IF Get(response, "ChallengeName") = Str("NEW_PASSWORD_REQUIRED")
          THEN Resolve([ success |-> FALSE,
                         challengeName |-> response.ChallengeName,
                         challengeParameters |->
                           IF Truthy(Get(response, "ChallengeParameters"))
                           THEN response.ChallengeParameters
                           ELSE Obj(EmptyObject),
                         error |-> "new password required" ])
          ELSE IF ~Truthy(Get(response, "AuthenticationResult"))
          THEN Resolve([ success |-> FALSE,
                         error |-> "no authentication result returned" ])
          ELSE Resolve(Tokens(response)) ]

\* the configs the services are constructed from
CognitoConfigInputs ==
  { [ region |-> "us-east-1", userPoolId |-> "us-east-1_testpool",
      clientId |-> "test-client-id", enableCognitoEmail |-> e ] :
      e \in BOOLEAN }

\* how a command fails: rejected with an Error (one with an empty message)
\* or with another value
CommandFailures ==
  { Reject(ErrorOf("User not found")), Reject(ErrorOf("")),
    Reject(Str("timeout")) }

\* how the command of an admin method settles
AdminSettles == {Resolve(EmptyObject)} \cup CommandFailures

\* the responses to login's command: tokens, a new-password challenge with
\* and without parameters, one carrying tokens too, another challenge, none
LoginResponses ==
  LET tokens == Obj([ AccessToken |-> Str("access-token"),
                      IdToken |-> Str("id-token"),
                      RefreshToken |-> Str("refresh-token"),
                      ExpiresIn |-> Num(3600),
                      TokenType |-> Str("Bearer") ])
      newPassword == Str("NEW_PASSWORD_REQUIRED")
  IN  { [AuthenticationResult |-> tokens],
        [AuthenticationResult |-> Obj([AccessToken |-> Str("access-token")])],
        [ ChallengeName |-> newPassword,
          ChallengeParameters |-> Obj([userAttributes |-> "{}"]) ],
        [ChallengeName |-> newPassword],
        [ChallengeName |-> newPassword, AuthenticationResult |-> tokens],
        [ChallengeName |-> Str("SMS_MFA")],
        [ChallengeName |-> Str("SMS_MFA"), AuthenticationResult |-> tokens],
        EmptyObject }

InitCognito ==
  /\ cog \in { NewCognitoService(config) : config \in CognitoConfigInputs }
  /\ cogOp = NoOp
  /\ ExceptCognitoIdle

\* the record of a call: the method, its arguments, how its command settled
\* and what the method did
CognitoCalled(method, args, settles, r) ==
  [ t |-> "call", method |-> method, args |-> args, settles |-> settles,
    calls |-> r.calls, logged |-> r.logged, outcome |-> r.outcome ]

SetUserPasswordCall ==
  /\ \E permanent \in BOOLEAN, settles \in AdminSettles :
       LET params == [ username |-> "testuser", password |-> "Password123!",
                       permanent |-> permanent ]
       IN  cogOp' = CognitoCalled("setUserPassword", params, settles,
                                  SetUserPassword(cog, params, settles))
  /\ UNCHANGED <<cog, exceptCognito>>

AddUserCall ==
  /\ \E isVerified \in BOOLEAN,
        rest \in { EmptyObject,
                   [phoneNumber |-> Str("+1234567890")],
                   [additionalAttributes |-> Obj([locale |-> "it"])],
                   [ phoneNumber |-> Undefined,
                     additionalAttributes |-> Undefined ] },
        settles \in AdminSettles :
       LET params == Spread([ username |-> "testuser",
                              email |-> "test@example.com",
                              temporaryPassword |-> "TempPass123!",
                              isVerified |-> isVerified ], rest)
       IN  cogOp' = CognitoCalled("addUser", params, settles,
                                  AddUser(cog, params, settles))
  /\ UNCHANGED <<cog, exceptCognito>>

RemoveUserCall ==
  /\ \E username \in {"testuser", "otheruser"}, settles \in AdminSettles :
       cogOp' = CognitoCalled("removeUser", [username |-> username], settles,
                              RemoveUser(cog, username, settles))
  /\ UNCHANGED <<cog, exceptCognito>>

ChangeUserEmailCall ==
  /\ \E settles \in AdminSettles :
       LET params == [ username |-> "testuser",
                       newEmail |-> "new@example.com" ]
       IN  cogOp' = CognitoCalled("changeUserEmail", params, settles,
                                  ChangeUserEmail(cog, params, settles))
  /\ UNCHANGED <<cog, exceptCognito>>

ChangePhoneNumberCall ==
  /\ \E settles \in AdminSettles :
       LET params == [ username |-> "testuser",
                       newPhoneNumber |-> "+1234567890" ]
       IN  cogOp' = CognitoCalled("changePhoneNumber", params, settles,
                                  ChangePhoneNumber(cog, params, settles))
  /\ UNCHANGED <<cog, exceptCognito>>

VerifyUserCall ==
  /\ \E username \in {"testuser", "otheruser"}, settles \in AdminSettles :
       cogOp' = CognitoCalled("verifyUser", [username |-> username], settles,
                              VerifyUser(cog, username, settles))
  /\ UNCHANGED <<cog, exceptCognito>>

LoginCall ==
  /\ \E settles \in { Resolve(response) : response \in LoginResponses }
                     \cup CommandFailures :
       LET params == [username |-> "testuser", password |-> "Password123!"]
       IN  cogOp' = CognitoCalled("login", params, settles,
                                  Login(cog, params, settles))
  /\ UNCHANGED <<cog, exceptCognito>>

NextCognito ==
  \/ SetUserPasswordCall
  \/ AddUserCall
  \/ RemoveUserCall
  \/ ChangeUserEmailCall
  \/ ChangePhoneNumberCall
  \/ VerifyUserCall
  \/ LoginCall

SpecCognito == InitCognito /\ [][NextCognito]_vars

(***************************************************************************)
(* Properties of CognitoService.                                           *)
(***************************************************************************)
AdminMethods ==
  { "setUserPassword", "addUser", "removeUser", "changeUserEmail",
    "changePhoneNumber", "verifyUser" }

AdminDid == cogOp.t = "call" /\ cogOp.method \in AdminMethods

LoginDid == cogOp.t = "call" /\ cogOp.method = "login"

\* C23: each of setUserPassword, addUser, removeUser, changeUserEmail,
\* changePhoneNumber and verifyUser sends exactly one command and resolves
\* to true exactly when that command succeeded; when the command fails the
\* method resolves to false, does not reject, and logs the error.
C23_ErrorToBoolean ==
  AdminDid =>
    /\ Len(cogOp.calls) = 1
    /\ cogOp.outcome.kind = "resolve"
    /\ cogOp.outcome.value = Bool(cogOp.settles.kind = "resolve")
    /\ cogOp.settles.kind = "resolve" => cogOp.logged = << >>
    /\ cogOp.settles.kind = "reject" =>
         /\ Len(cogOp.logged) = 1
         /\ \E prefix \in { "error setting user password: ",
                            "error adding user: ", "error removing user: ",
                            "error changing user email: ",
                            "error changing phone number: ",
                            "error verifying user: " } :
              cogOp.logged[1] = prefix \o TemplateString(cogOp.settles.error)

C23_Witness ==
  /\ AdminDid
  /\ cogOp.method = "addUser"
  /\ cogOp.settles = Reject(ErrorOf("User not found"))
  /\ cogOp.outcome = Resolve(Bool(FALSE))
  /\ cogOp.logged = <<"error adding user: Error: User not found">>

TokenKeys == {"accessToken", "idToken", "refreshToken", "expiresIn", "tokenType"}

\* C24: login never rejects.  It returns success:true with the tokens
\* exactly when the response carries an AuthenticationResult and its
\* ChallengeName is not NEW_PASSWORD_REQUIRED; a NEW_PASSWORD_REQUIRED
\* challenge gives success:false with challengeName, challengeParameters
\* and the error 'new password required'; a response with neither gives
\* success:false with 'no authentication result returned'; a thrown error
\* gives success:false with its message.  Every success:false result has an
\* error and no tokens.
C24_LoginResult ==
  LoginDid =>
    /\ cogOp.outcome.kind = "resolve"
    /\ LET result == cogOp.outcome.value
           response == cogOp.settles.value
           carriesResult == "AuthenticationResult" \in DOMAIN response
           newPassword ==
             /\ "ChallengeName" \in DOMAIN response
             /\ response.ChallengeName.v = "NEW_PASSWORD_REQUIRED"
       IN  /\ cogOp.settles.kind = "reject" =>
                result = [ success |-> FALSE,
                           error |-> IF cogOp.settles.error.t = "Error"
                                     THEN cogOp.settles.error.message
                                     ELSE cogOp.settles.error.v ]
           /\ cogOp.settles.kind = "resolve" =>
                /\ result.success <=> (carriesResult /\ ~newPassword)
                /\ result.success =>
                     /\ TokenKeys \subseteq DOMAIN result
                     /\ result.accessToken =
                          Get(response.AuthenticationResult.v, "AccessToken")
                     /\ result.refreshToken =
                          Get(response.AuthenticationResult.v, "RefreshToken")
                /\ newPassword =>
                     /\ DOMAIN result = { "success", "challengeName",
                                          "challengeParameters", "error" }
                     /\ result.challengeName = Str("NEW_PASSWORD_REQUIRED")
                     /\ result.error = "new password required"
                /\ (~newPassword /\ ~carriesResult) =>
                     result = [ success |-> FALSE,
                                error |->
                                  "no authentication result returned" ]
           /\ ~result.success =>
                /\ "error" \in DOMAIN result
                /\ TokenKeys \cap DOMAIN result = {}

C24_Witness ==
  /\ LoginDid
  /\ cogOp.settles.kind = "resolve"
  /\ "AuthenticationResult" \in DOMAIN cogOp.settles.value
  /\ Get(cogOp.settles.value, "ChallengeName") = Str("NEW_PASSWORD_REQUIRED")
  /\ ~cogOp.outcome.value.success
  /\ cogOp.outcome.value.challengeParameters = Obj(EmptyObject)

(***************************************************************************)
(* Further properties of the generator, the logger and OtpService.         *)
(***************************************************************************)
\* the character an alphabet holds at the index byte b reduces to: of the
\* ten digits, or of the 26 upper-case letters followed by the ten digits
CharacterFor(numbersOnly, b) ==
  IF numbersOnly THEN 48 + (b % 10)
  ELSE IF (b % 36) < 26 THEN 65 + (b % 36) ELSE 48 + ((b % 36) - 26)

\* C25: generate() draws exactly length random bytes, and the character at
\* position i of its result is the one at index (b_i mod n) of the alphabet,
\* b_i being the i-th byte and n the alphabet's size; the alphabet is
\* '0123456789' when numbersOnly is true and 'A'..'Z' followed by '0'..'9'
\* otherwise.  A position's character depends on that position's byte only.
C25_CharacterSelection ==
  Generated =>
    /\ Len(op.randomValues) = gen.length
    /\ Len(op.result) = gen.length
    /\ \A i \in 1..gen.length :
         op.result[i] = CharacterFor(gen.numbersOnly, op.randomValues[i])
    /\ \A i, j \in 1..gen.length :
         op.randomValues[i] = op.randomValues[j] => op.result[i] = op.result[j]

C25_Witness ==
  /\ Generated
  /\ ~gen.numbersOnly
  /\ op.randomValues = <<255, 36, 73>>
  /\ op.result = <<68, 65, 66>>

\* the levels a LOG_LEVEL value names, whatever its case: none when it is
\* unset or names no level
LevelsNamedBy(value) ==
  IF value = Undefined THEN {}
  ELSE { LogLevel[k] : k \in { n \in DOMAIN LogLevel :
                                 ToUpperCase(value.v) = LevelNames[n] } }

\* C26: a logger is constructed with the level LOG_LEVEL names when it
\* names one, in any case; otherwise with ERROR when NODE_ENV is
\* 'production'; otherwise with config.level when it is given; otherwise
\* with VERBOSE.  A setLogLevel call made while LOG_LEVEL names a level
\* leaves the logger's level as it was.
C26_LevelPrecedence ==
  /\ asked.t = "new" =>
       LET named == LevelsNamedBy(asked.env.LOG_LEVEL)
       IN  /\ named # {} => lg.logLevel \in named
           /\ named = {} =>
                lg.logLevel =
                  IF asked.env.NODE_ENV = Str("production") THEN LogLevel.ERROR
                  ELSE IF "level" \in DOMAIN asked.config
                  THEN asked.config.level.v
                  ELSE LogLevel.VERBOSE
  /\ (asked.t = "setLogLevel" /\ LevelsNamedBy(asked.envLevel) # {}) =>
       lg.logLevel = asked.before

C26_Witness ==
  /\ asked.t = "new"
  /\ asked.env = [ NODE_ENV |-> Str("production"),
                   LOG_LEVEL |-> Str(<<100, 101, 98, 117, 103>>) ]
  /\ asked.config = [level |-> Num(LogLevel.WARN)]
  /\ lg.logLevel = LogLevel.DEBUG

\* the caller validated the code it was issued, giving the time of issue
\* as createdAt
ValidatedAsIssued ==
  /\ Called
  /\ Issued
  /\ call.createdAt = DateOf(issued.at)

\* C27: for a service with any configured duration, 0 included, a code
\* issued at t0 and validated at time t with createdAt = t0 is reported
\* expired exactly when createOtp returned an expiresAt and t is after it.
C27_IssueValidateAgree ==
  (ValidatedAsIssued /\ DurationConfigured) =>
    ( call.outcome = Return(ExpiredResult)
      <=> /\ issued.result.expiresAt # Undefined
          /\ now > issued.result.expiresAt.ms )

(***************************************************************************)
(* One OtpService whose caller presents the same code, commitment and      *)
(* createdAt to validateOtp again and again while time passes.             *)
(***************************************************************************)
\* the most calls made with the same arguments
MaxCalls == 3

\* the arguments presented: the right code or a tampered one, the code's
\* commitment or a cut one, no createdAt, one of this instant or one older
\* than the configured duration
ReplayInputs ==
  { [otp |-> otp, hash |-> hash, createdAt |-> createdAt] :
      otp \in {Code123456, Tamper(Code123456)},
      hash \in { CreateHash(svc.hashService, Code123456),
                 SubSeq(CreateHash(svc.hashService, Code123456), 1, 4) },
      createdAt \in {Undefined, DateOf(now), DateOf(now - (ExpiryMs + 1))} }

\* the n-th validateOtp call with arguments a, made at time now
ValidateOtpAt(a, n) ==
  [ t |-> "validateOtp", otp |-> a.otp, hash |-> a.hash,
    createdAt |-> a.createdAt, at |-> now, n |-> n,
    outcome |-> ValidateOtp(svc, a.otp, a.hash, a.createdAt, now).outcome ]

InitReplay ==
  /\ ctor \in CtorInputs
  /\ svc = NewOtpService(ctor)
  /\ now = 0
  /\ issued = NoIssue
  /\ call = NoCall
  /\ seen = NoOp
  /\ ExceptReplayIdle

\* a millisecond passes
ReplayTick ==
  /\ now < MaxNow
  /\ now' = now + 1
  /\ UNCHANGED <<ctor, svc, issued, call, seen, exceptReplay>>

\* the first validateOtp call
FirstValidateCall ==
  /\ seen = NoOp
  /\ \E a \in ReplayInputs :
       /\ call' = ValidateOtpAt(a, 1)
       /\ seen' = ValidateOtpAt(a, 1)
  /\ UNCHANGED <<ctor, svc, now, issued, exceptReplay>>

\* validateOtp called once more with the arguments of the first call
RepeatValidateCall ==
  /\ seen # NoOp
  /\ call.n < MaxCalls
  /\ call' = ValidateOtpAt(seen, call.n + 1)
  /\ UNCHANGED <<ctor, svc, now, issued, seen, exceptReplay>>

NextReplay == ReplayTick \/ FirstValidateCall \/ RepeatValidateCall

SpecReplay == InitReplay /\ [][NextReplay]_vars

\* the call the caller holds repeats the first call
Repeated == call.t = "validateOtp" /\ call.n > 1

\* C28: validateOtp keeps no record of the codes it has seen.  A call
\* repeating the first call's arguments at the same clock value returns what
\* the first call returned; a code the first call found valid is found
\* valid by every repeat that is not expired; arguments the first call
\* reported expired are reported expired by every later call.
C28_NoUsedCodeRecord ==
  Repeated =>
    /\ call.at = seen.at => call.outcome = seen.outcome
    /\ ( /\ seen.outcome = Return(ValidResult(TRUE))
         /\ call.outcome # Return(ExpiredResult) )
       => call.outcome = Return(ValidResult(TRUE))
    /\ seen.outcome = Return(ExpiredResult) =>
         call.outcome = Return(ExpiredResult)

C28_Witness ==
  /\ Repeated
  /\ call.n = MaxCalls
  /\ call.at > seen.at
  /\ seen.createdAt # Undefined
  /\ svc.expiryTimeMs = Num(ExpiryMs)
  /\ seen.outcome = Return(ValidResult(TRUE))
  /\ call.outcome = Return(ValidResult(TRUE))

(***************************************************************************)
(* A generator whose length is set to any integer, non-positive ones       *)
(* included.                                                               *)
(***************************************************************************)
\* generate() returning the empty string for a negative length
GenerateOutcomeClamped(options, randomValues) ==
  IF options.length < 0 THEN Return(EmptyString)
  ELSE Return(Generate(options, randomValues))

\* generate() as a whole: new Uint8Array(length) raises a RangeError
\* ('Invalid typed array length') for a negative length, before any byte
\* is drawn; otherwise the loop runs
GenerateOutcome(options, randomValues) ==
  IF options.length < 0 THEN Throw([name |-> "RangeError"])
  ELSE Return(Generate(options, randomValues))

\* the lengths given to setOptions
LengthInputs == (0 - MaxLength)..MaxLength

\* generator.setOptions({ length: n })
SetLengthCall ==
  /\ \E n \in LengthInputs :
       /\ gen' = OtpGeneratorSetOptions(gen, [length |-> n])
       /\ op' = [ t |-> "generator.setOptions", partial |-> [length |-> n],
                  before |-> gen, outcome |-> Return(Undefined) ]
  /\ UNCHANGED <<hs, first, exceptOptions>>

\* generator.generate(), whatever the length
GenerateOutcomeCall ==
  /\ \E randomValues \in
          IF gen.length >= 0 THEN RandomValues(gen.length) ELSE {<< >>} :
       op' = [ t |-> "generate", randomValues |-> randomValues,
               outcome |-> GenerateOutcome(gen, randomValues) ]
  /\ UNCHANGED <<gen, hs, first, exceptOptions>>

NextLengths == SetLengthCall \/ GenerateOutcomeCall

SpecLengths == InitGenerator /\ [][NextLengths]_vars

\* setOptions({ length: n }) with n <= 0 returned and left n stored
StoredNonPositive ==
  (op.t = "generator.setOptions" /\ op.partial.length <= 0) =>
    /\ op.outcome.kind = "return"
    /\ gen.length = op.partial.length

====
